---- MODULE Spec2Model ----
(***************************************************************************)
(* Model of the statistics aggregation of belief-mirror (stats.js, kept    *)
(* in src/unnamed/part_000): calculateStats, calculateWinLossStats and its *)
(* two bucketing passes, categorizeMarkets, the hour and day distributions *)
(* and getMonthlyVolume.                                                   *)
(*                                                                         *)
(* Numbers.  realizedPnl values are integers (whole currency units).       *)
(* avgPrice is held in cents, so the source's 0.20 is 20 here.  A JS       *)
(* number obtained by a division is an exact fraction [n, d] in lowest     *)
(* terms with d > 0; JS Infinity is the fraction [n |-> 1, d |-> 0].       *)
(* A JS object is a function from its keys; a field that is missing from   *)
(* a record is missing from the function's DOMAIN.                         *)
(***************************************************************************)
EXTENDS Integers, Sequences, FiniteSets, TLC

VARIABLES
    closedPositions,   \* the argument handed to calculateWinLossStats
    winLossStats,      \* the object it returned
    trades,            \* the argument handed to getMonthlyVolume
    monthlyVolume,     \* the object it returned, as its entries in key order
    appData,           \* the data object handed to calculateStats
    stats,             \* what calculateStats returned, or the error it threw
    calls,             \* the invocations of calculateStats so far, in order
    appState,          \* the process-wide appState object of app.js
    invocations,       \* the calls of analyzeWallet so far, in the order they were started
    allActivity,       \* fetchAllActivity: the batches concatenated so far, one entry per batch
    offset,            \* fetchAllActivity: its offset, a number that may be NaN
    hasMore,           \* fetchAllActivity: its loop flag
    requests,          \* fetchAllActivity: the fetchActivity calls it has made
    activityPc,        \* "idle", "fetching" while a request is awaited, "returned" or "rejected"
    allClosed,         \* fetchClosedPositions: the pages concatenated so far, one entry per page
    closedOffset,      \* fetchClosedPositions: its offset, a number that may be NaN
    closedHasMore,     \* fetchClosedPositions: its loop flag
    closedResponses,   \* the answers the closed-positions endpoint has given, in order
    closedPc,          \* "idle", "fetching", "resolved" or "rejected"
    fetches,           \* fetchAllData: the state of the promises of fetchAllActivity and fetchPositions
    allData,           \* fetchAllData: the state of its own promise
    chatHistory,       \* the chatHistory array of the chat script
    chatRequests,      \* the requests made to /api/chat so far, each with its state
    customTagsItem,    \* the localStorage item under CUSTOM_TAGS_KEY
    tagModal,          \* the tag modal: "hidden" or "shown"
    tagToast,          \* the text of the last toast of the tag functions
    tagCall,           \* the last tag function called, with the field values it read
    pc                 \* "call" before the function is applied, "done" after

\* the variables of the statistics functions
statsVars == <<closedPositions, winLossStats, trades, monthlyVolume, appData, stats, calls, pc>>

\* the variables of analyzeWallet
walletVars == <<appState, invocations>>

\* the variables of fetchAllActivity
activityVars == <<allActivity, offset, hasMore, requests, activityPc>>

\* the variables of fetchAllData and fetchClosedPositions
dataVars == <<allClosed, closedOffset, closedHasMore, closedResponses, closedPc, fetches, allData>>

\* the variables of the chat
chatVars == <<chatHistory, chatRequests>>

\* The state of the custom tags of the journal (journal.js 380-461).
tagVars == <<customTagsItem, tagModal, tagToast, tagCall>>

vars ==
    <<statsVars, walletVars, activityVars, dataVars, chatVars, tagVars>>

-----------------------------------------------------------------------------
(* Bounds *)

MaxClosed == 3
MaxTrades == 3
MaxActivity == 3
MaxPositions == 1
MaxCalls == 3

-----------------------------------------------------------------------------
(* JS values *)

Null == [null |-> TRUE]

\* an argument that was not passed (undefined) or an array
Undefined == [defined |-> FALSE]
Array(s) == [defined |-> TRUE, value |-> s]

\* (obj.field || 0) for a numeric field
OrZero(obj, field) == IF field \in DOMAIN obj THEN obj[field] ELSE 0

\* (obj.title || '')
OrEmpty(obj, field) == IF field \in DOMAIN obj THEN obj[field] ELSE ""

RECURSIVE Gcd(_, _)
Gcd(a, b) == IF b = 0 THEN a ELSE Gcd(b, a % b)

Abs(x) == IF x < 0 THEN -x ELSE x

\* a / b for b > 0, as a fraction in lowest terms
Quot(a, b) ==
    LET g == Gcd(Abs(a), b)
    IN  [n |-> a \div g, d |-> b \div g]

\* q * k for an integer k
Times(q, k) == Quot(q.n * k, q.d)

Zero == [n |-> 0, d |-> 1]
Infinity == [n |-> 1, d |-> 0]

\* as SumPnl, adding the magnitudes
RECURSIVE SumPnl_Magnitudes(_)
SumPnl_Magnitudes(s) ==
    IF s = <<>> THEN 0
    ELSE Abs(OrZero(Head(s), "realizedPnl")) + SumPnl_Magnitudes(Tail(s))

\* arr.reduce((sum, p) => sum + (p.realizedPnl || 0), 0)
RECURSIVE SumPnl(_)
SumPnl(s) ==
    IF s = <<>> THEN 0 ELSE OrZero(Head(s), "realizedPnl") + SumPnl(Tail(s))

-----------------------------------------------------------------------------
(* The state of the rest of the page while one function is studied *)

\* const appState = { ... }
InitialAppState ==
    [walletAddress |-> Null, data |-> Null, stats |-> Null,
     currentTradeOffset |-> 0, tradesPerPage |-> 25, chartRange |-> "weekly"]

\* appState as the script declares it; analyzeWallet has not been called
WalletInitial ==
    /\ appState = InitialAppState
    /\ invocations = <<>>

\* fetchAllActivity has not been called
ActivityInitial ==
    /\ allActivity = <<>>
    /\ offset = Zero
    /\ hasMore = TRUE
    /\ requests = 0
    /\ activityPc = "idle"

\* fetchAllData has not been called
DataInitial ==
    /\ allClosed = <<>>
    /\ closedOffset = Zero
    /\ closedHasMore = TRUE
    /\ closedResponses = <<>>
    /\ closedPc = "idle"
    /\ fetches = [activity |-> "idle", positions |-> "idle"]
    /\ allData = "idle"

\* let chatHistory = []; nothing has been sent
ChatInitial ==
    /\ chatHistory = <<>>
    /\ chatRequests = <<>>

\* No custom tag was ever stored, the tag modal is hidden (journal.js 380-461).
TagsInitial ==
    /\ customTagsItem = Null
    /\ tagModal = "hidden"
    /\ tagToast = ""
    /\ tagCall = [fn |-> "none"]

-----------------------------------------------------------------------------
(* String helpers: title.toLowerCase() and title.includes(word) *)

Upper == "ABCDEFGHIJKLMNOPQRSTUVWXYZ"
Lower == "abcdefghijklmnopqrstuvwxyz"

LowerChar(c) ==
    IF \E k \in 1..26 : SubSeq(Upper, k, k) = c
    THEN LET k == CHOOSE k \in 1..26 : SubSeq(Upper, k, k) = c
         IN  SubSeq(Lower, k, k)
    ELSE c

RECURSIVE ToLowerCase(_)
ToLowerCase(s) ==
    IF Len(s) = 0 THEN ""
    ELSE LowerChar(SubSeq(s, 1, 1)) \o ToLowerCase(SubSeq(s, 2, Len(s)))

Includes(s, word) ==
    \E i \in 1..(Len(s) - Len(word) + 1) : SubSeq(s, i, i + Len(word) - 1) = word

-----------------------------------------------------------------------------
(* calculateWinLossByCategory *)

CategoryKeywords ==
    << <<"Politics", {"election", "president", "congress", "senate", "trump",
                      "biden", "democrat", "republican", "vote", "governor",
                      "mayor", "political", "impeach"}>>,
       <<"Sports", {"nba", "nfl", "mlb", "world cup", "super bowl",
                    "championship", "playoffs", "game", "team", "player",
                    "match"}>>,
       <<"Crypto", {"bitcoin", "ethereum", "btc", "eth", "crypto", "token",
                    "coin", "defi", "nft", "blockchain"}>>,
       <<"Economy", {"fed", "interest rate", "inflation", "gdp", "recession",
                     "economy", "market", "stock", "treasury", "unemployment"}>>,
       <<"Entertainment", {"oscar", "emmy", "movie", "film", "album", "spotify",
                           "netflix", "celebrity", "award"}>>,
       <<"Science", {"climate", "nasa", "space", "ai", "artificial intelligence",
                     "scientific", "research", "temperature"}>> >>

\* the for..of over Object.entries(keywords) with its break; 'Other' when no
\* category matches
RECURSIVE FirstMatch(_, _, _)
FirstMatch(keywords, title, i) ==
    IF i > Len(keywords) THEN "Other"
    ELSE IF \E word \in keywords[i][2] : Includes(title, word)
         THEN keywords[i][1]
         ELSE FirstMatch(keywords, title, i + 1)

\* the titles that occur in the inputs below ('' stands for a missing title)
Titles ==
    {"", "Will BTC hit 100k", "NBA Finals Winner", "Trump wins the election",
     "Fed rate cut in March", "Best picture Oscar", "Foo bar",
     "Mars landing by NASA", "Who will win the Oscar", "Final score over 200",
     "Bitcoin to win the week", "High score in the playoffs",
     "Vote on the score"}

\* title.toLowerCase() followed by the keyword loop, tabulated per title
CategoryOfTitle ==
    [title \in Titles |-> FirstMatch(CategoryKeywords, ToLowerCase(title), 1)]

PositionCategory(position) == CategoryOfTitle[OrEmpty(position, "title")]

EmptyObject == [k \in {} |-> 0]

NewBucket == [wins |-> 0, losses |-> 0, totalPnl |-> 0, count |-> 0]

\* as AddToBucket, with count++ moved into the win and loss branches
AddToBucket_CountInBranches(data, position) ==
    LET pnl == OrZero(position, "realizedPnl")
    IN  [wins     |-> IF pnl > 0 THEN data.wins + 1 ELSE data.wins,
         losses   |-> IF pnl < 0 THEN data.losses + 1 ELSE data.losses,
         totalPnl |-> data.totalPnl + pnl,
         count    |-> IF pnl # 0 THEN data.count + 1 ELSE data.count]

\* count++, totalPnl += realizedPnl || 0, then wins++ or losses++ by sign
AddToBucket(data, position) ==
    LET pnl == OrZero(position, "realizedPnl")
    IN  [wins     |-> IF pnl > 0 THEN data.wins + 1 ELSE data.wins,
         losses   |-> IF pnl > 0 THEN data.losses
                      ELSE IF pnl < 0 THEN data.losses + 1 ELSE data.losses,
         totalPnl |-> data.totalPnl + pnl,
         count    |-> data.count + 1]

\* as BucketWinRate, over the decided positions only
BucketWinRate_DecidedOnly(data) ==
    IF data.wins + data.losses > 0
    THEN Times(Quot(data.wins, data.wins + data.losses), 100) ELSE Zero

\* data.winRate = data.count > 0 ? (data.wins / data.count) * 100 : 0
BucketWinRate(data) ==
    IF data.count > 0 THEN Times(Quot(data.wins, data.count), 100) ELSE Zero

\* the second pass over Object.keys: every bucket gets its winRate
WithWinRates(buckets) ==
    [key \in DOMAIN buckets |->
        [wins     |-> buckets[key].wins,
         losses   |-> buckets[key].losses,
         totalPnl |-> buckets[key].totalPnl,
         count    |-> buckets[key].count,
         winRate  |-> BucketWinRate(buckets[key])]]

\* as CategoryPass, with every category seeded like the price ranges
RECURSIVE CategoryPass_SeedsFound(_, _)
CategoryPass_SeedsFound(categories, positions) ==
    IF positions = <<>> THEN categories
    ELSE LET position == Head(positions)
             category == PositionCategory(position)
             seeded   == categories
                           @@ [c \in {category, "Other"} \ DOMAIN categories |-> NewBucket]
         IN  CategoryPass_SeedsFound(
                 [seeded EXCEPT ![category] = AddToBucket(@, position)],
                 Tail(positions))

\* closedPositions.forEach over the lazily created category buckets
RECURSIVE CategoryPass(_, _)
CategoryPass(categories, positions) ==
    IF positions = <<>> THEN categories
    ELSE LET position == Head(positions)
             category == PositionCategory(position)
             seeded   == IF category \in DOMAIN categories THEN categories
                         ELSE categories @@ (category :> NewBucket)
         IN  CategoryPass([seeded EXCEPT ![category] = AddToBucket(@, position)],
                          Tail(positions))

calculateWinLossByCategory(positions) ==
    WithWinRates(CategoryPass(EmptyObject, positions))

-----------------------------------------------------------------------------
(* calculateWinLossByPriceRange *)

Longshots == "Longshots (0-20¢)"
Underdogs == "Underdogs (20-40¢)"
TossUps == "Toss-ups (40-60¢)"
Favorites == "Favorites (60-80¢)"
HeavyFavorites == "Heavy Favorites (80-100¢)"

RangeLabels == <<Longshots, Underdogs, TossUps, Favorites, HeavyFavorites>>

SeededRanges == [label \in {RangeLabels[k] : k \in 1..5} |-> NewBucket]

\* as PriceRange, with < in place of <=
PriceRange_StrictLimits(position) ==
    LET avgPrice == OrZero(position, "avgPrice")
    IN  IF avgPrice < 20 THEN Longshots
        ELSE IF avgPrice < 40 THEN Underdogs
        ELSE IF avgPrice < 60 THEN TossUps
        ELSE IF avgPrice < 80 THEN Favorites
        ELSE HeavyFavorites

\* the if / else-if chain over avgPrice (in cents here)
PriceRange(position) ==
    LET avgPrice == OrZero(position, "avgPrice")
    IN  IF avgPrice <= 20 THEN Longshots
        ELSE IF avgPrice <= 40 THEN Underdogs
        ELSE IF avgPrice <= 60 THEN TossUps
        ELSE IF avgPrice <= 80 THEN Favorites
        ELSE HeavyFavorites

RECURSIVE RangePass(_, _)
RangePass(ranges, positions) ==
    IF positions = <<>> THEN ranges
    ELSE LET position == Head(positions)
             range    == PriceRange(position)
         IN  RangePass([ranges EXCEPT ![range] = AddToBucket(@, position)],
                       Tail(positions))

calculateWinLossByPriceRange(positions) ==
    WithWinRates(RangePass(SeededRanges, positions))

-----------------------------------------------------------------------------
(* calculateWinLossStats *)

\* the three filter predicates over (p.realizedPnl || 0)
IsWin(p) == OrZero(p, "realizedPnl") > 0

IsLoss(p) == OrZero(p, "realizedPnl") < 0

\* as IsBreakeven, without the || 0
IsBreakeven_NoDefault(p) == "realizedPnl" \in DOMAIN p /\ p.realizedPnl = 0

IsBreakeven(p) == OrZero(p, "realizedPnl") = 0

\* as ReduceMax, with >= in place of >
RECURSIVE ReduceMax_LaterOnTie(_, _)
ReduceMax_LaterOnTie(max, s) ==
    IF s = <<>> THEN max
    ELSE ReduceMax_LaterOnTie(
             IF OrZero(Head(s), "realizedPnl") >= OrZero(max, "realizedPnl")
             THEN Head(s) ELSE max, Tail(s))

\* wins.reduce((max, p) => pnl(p) > pnl(max) ? p : max, wins[0])
RECURSIVE ReduceMax(_, _)
ReduceMax(max, s) ==
    IF s = <<>> THEN max
    ELSE ReduceMax(IF OrZero(Head(s), "realizedPnl") > OrZero(max, "realizedPnl")
                   THEN Head(s) ELSE max, Tail(s))

\* losses.reduce((min, p) => pnl(p) < pnl(min) ? p : min, losses[0])
RECURSIVE ReduceMin(_, _)
ReduceMin(min, s) ==
    IF s = <<>> THEN min
    ELSE ReduceMin(IF OrZero(Head(s), "realizedPnl") < OrZero(min, "realizedPnl")
                   THEN Head(s) ELSE min, Tail(s))

\* the early return for a missing or empty closedPositions
EmptyWinLossStats ==
    [totalResolved       |-> 0,
     wins                |-> 0,
     losses              |-> 0,
     winRate             |-> Zero,
     totalRealizedPnL    |-> 0,
     avgWinAmount        |-> Zero,
     avgLossAmount       |-> Zero,
     biggestWin          |-> Null,
     biggestLoss         |-> Null,
     profitFactor        |-> Zero,
     winLossByCategory   |-> EmptyObject,
     winLossByPriceRange |-> EmptyObject]

\* as WinRate, with the operands of the division exchanged
WinRate_Exchanged(winCount, totalResolved) ==
    IF winCount > 0 THEN Times(Quot(totalResolved, winCount), 100) ELSE Zero

\* totalResolved > 0 ? (winCount / totalResolved) * 100 : 0
WinRate(winCount, totalResolved) ==
    IF totalResolved > 0 THEN Times(Quot(winCount, totalResolved), 100) ELSE Zero

\* as ProfitFactor, with the operands of the division exchanged
ProfitFactor_Exchanged(totalWinAmount, totalLossAmount) ==
    IF totalWinAmount > 0 THEN Quot(totalLossAmount, totalWinAmount)
    ELSE IF totalLossAmount > 0 THEN Infinity ELSE Zero

\* as ProfitFactor, Infinity whenever there is no loss amount
ProfitFactor_InfinityWithoutLoss(totalWinAmount, totalLossAmount) ==
    IF totalLossAmount > 0 THEN Quot(totalWinAmount, totalLossAmount)
    ELSE Infinity

\* as ProfitFactor, without the Infinity case
ProfitFactor_NoInfinity(totalWinAmount, totalLossAmount) ==
    IF totalLossAmount > 0 THEN Quot(totalWinAmount, totalLossAmount)
    ELSE Zero

\* totalLossAmount > 0 ? totalWinAmount / totalLossAmount
\*                     : totalWinAmount > 0 ? Infinity : 0
ProfitFactor(totalWinAmount, totalLossAmount) ==
    IF totalLossAmount > 0 THEN Quot(totalWinAmount, totalLossAmount)
    ELSE IF totalWinAmount > 0 THEN Infinity ELSE Zero

calculateWinLossStats(arg) ==
    IF ~arg.defined \/ Len(arg.value) = 0 THEN EmptyWinLossStats
    ELSE
    LET positions        == arg.value
        wins             == SelectSeq(positions, IsWin)
        losses           == SelectSeq(positions, IsLoss)
        breakeven        == SelectSeq(positions, IsBreakeven)
        totalResolved    == Len(positions)
        winCount         == Len(wins)
        lossCount        == Len(losses)
        totalRealizedPnL == SumPnl(positions)
        totalWinAmount   == SumPnl(wins)
        totalLossAmount  == Abs(SumPnl(losses))
    IN  [totalResolved       |-> totalResolved,
         wins                |-> winCount,
         losses              |-> lossCount,
         breakeven           |-> Len(breakeven),
         winRate             |-> WinRate(winCount, totalResolved),
         totalRealizedPnL    |-> totalRealizedPnL,
         totalWinAmount      |-> totalWinAmount,
         totalLossAmount     |-> totalLossAmount,
         avgWinAmount        |-> IF winCount > 0
                                 THEN Quot(totalWinAmount, winCount) ELSE Zero,
         avgLossAmount       |-> IF lossCount > 0
                                 THEN Quot(totalLossAmount, lossCount) ELSE Zero,
         biggestWin          |-> IF Len(wins) > 0
                                 THEN ReduceMax(wins[1], wins) ELSE Null,
         biggestLoss         |-> IF Len(losses) > 0
                                 THEN ReduceMin(losses[1], losses) ELSE Null,
         profitFactor        |-> ProfitFactor(totalWinAmount, totalLossAmount),
         expectancy          |-> IF totalResolved > 0
                                 THEN Quot(totalRealizedPnL, totalResolved)
                                 ELSE Zero,
         winLossByCategory   |-> calculateWinLossByCategory(positions),
         winLossByPriceRange |-> calculateWinLossByPriceRange(positions),
         closedPositions     |-> positions]

-----------------------------------------------------------------------------
(* Inputs of the win/loss analysis *)

\* closed positions as the data fetch can supply them: realizedPnl of each
\* sign, zero and missing; avgPrice at, just above and away from the band
\* limits, and missing; titles of several categories, and missing
ClosedPool ==
    { [realizedPnl |-> 50,  avgPrice |-> 15,  title |-> "Will BTC hit 100k"],
      [realizedPnl |-> -20, avgPrice |-> 70,  title |-> "NBA Finals Winner"],
      [realizedPnl |-> 50,  avgPrice |-> 20,  title |-> "Trump wins the election"],
      [realizedPnl |-> -20, avgPrice |-> 41,  title |-> "Fed rate cut in March"],
      [realizedPnl |-> 0,   avgPrice |-> 40,  title |-> "Best picture Oscar"],
      [realizedPnl |-> 30,  avgPrice |-> 60,  title |-> "Foo bar"],
      [realizedPnl |-> -50, avgPrice |-> 80],
      [avgPrice |-> 81, title |-> "Foo bar"],
      [realizedPnl |-> 7,   avgPrice |-> 100, title |-> "Mars landing by NASA"],
      [realizedPnl |-> -3,  title |-> "Will BTC hit 100k"] }

SeqsUpTo(S, n) == UNION {[1..k -> S] : k \in 0..n}

ClosedInputs == {Undefined} \cup {Array(s) : s \in SeqsUpTo(ClosedPool, MaxClosed)}

InitWinLoss ==
    /\ closedPositions \in ClosedInputs
    /\ winLossStats = EmptyObject
    /\ trades = <<>>
    /\ monthlyVolume = <<>>
    /\ appData = EmptyObject
    /\ stats = EmptyObject
    /\ calls = <<>>
    /\ WalletInitial
    /\ ActivityInitial
    /\ DataInitial
    /\ ChatInitial
    /\ TagsInitial
    /\ pc = "call"

\* winLossStats = calculateWinLossStats(closedPositions)
CallCalculateWinLossStats ==
    /\ pc = "call"
    /\ winLossStats' = calculateWinLossStats(closedPositions)
    /\ pc' = "done"
    /\ UNCHANGED <<closedPositions, trades, monthlyVolume, appData, stats, calls, walletVars, activityVars, dataVars, chatVars, tagVars>>

NextWinLoss == CallCalculateWinLossStats

SpecWinLoss == InitWinLoss /\ [][NextWinLoss]_vars

-----------------------------------------------------------------------------
(* Properties of calculateWinLossStats, checked under SpecWinLoss *)

Returned == pc = "done"

\* the array the call was given ([] when none was passed)
GivenPositions == IF closedPositions.defined THEN closedPositions.value ELSE <<>>

CountWhere(s, Test(_)) == Cardinality({i \in DOMAIN s : Test(s[i])})

RECURSIVE SumOver(_, _, _)
SumOver(buckets, keys, field) ==
    IF keys = {} THEN 0
    ELSE LET key == CHOOSE k \in keys : TRUE
         IN  buckets[key][field] + SumOver(buckets, keys \ {key}, field)

SumField(buckets, field) == SumOver(buckets, DOMAIN buckets, field)

\* a field of the result that is present and has the given value
FieldIs(field, value) ==
    field \in DOMAIN winLossStats /\ winLossStats[field] = value

\* C1: the counts of the price-range buckets add up to totalResolved, which is
\* the number of closed positions given: every position is counted in exactly
\* one bucket.
C1_PriceRangeCountsPartition ==
    Returned =>
        /\ SumField(winLossStats.winLossByPriceRange, "count")
               = winLossStats.totalResolved
        /\ winLossStats.totalResolved = Len(GivenPositions)

C1_Witness ==
    /\ Returned
    /\ winLossStats.totalResolved = 3
    /\ winLossStats.winLossByPriceRange[Longshots].count = 2
    /\ winLossStats.winLossByPriceRange[HeavyFavorites].count = 1
    /\ \E i \in DOMAIN GivenPositions : "avgPrice" \notin DOMAIN GivenPositions[i]

\* C2: for a non-empty closedPositions array, wins + losses + breakeven equals
\* totalResolved, a position without realizedPnl counting as breakeven.
C2_WinsLossesBreakevenPartition ==
    (Returned /\ Len(GivenPositions) > 0) =>
        /\ winLossStats.wins + winLossStats.losses + winLossStats.breakeven
               = winLossStats.totalResolved
        /\ winLossStats.breakeven
               >= CountWhere(GivenPositions,
                             LAMBDA p : "realizedPnl" \notin DOMAIN p)

C2_Witness ==
    /\ Returned
    /\ winLossStats.totalResolved = 3
    /\ winLossStats.wins = 1
    /\ winLossStats.losses = 1
    /\ \E i \in DOMAIN GivenPositions : "realizedPnl" \notin DOMAIN GivenPositions[i]

InPercentRange(q) == q.d > 0 /\ 0 <= q.n /\ q.n <= 100 * q.d

\* C3 as stated: winRate is in [0,100] and is 0 exactly when totalResolved is 0.
C3_Original ==
    Returned =>
        /\ InPercentRange(winLossStats.winRate)
        /\ (winLossStats.winRate = Zero) <=> (winLossStats.totalResolved = 0)

\* C3 (amended): winRate is in [0,100] and is 0 exactly when wins is 0, that is
\* when no closed position has a positive realizedPnl; no closed positions at
\* all is one such case.
C3_WinRateZeroIffNoWins ==
    Returned =>
        /\ InPercentRange(winLossStats.winRate)
        /\ (winLossStats.winRate = Zero) <=> (winLossStats.wins = 0)
        /\ winLossStats.totalResolved = 0 => winLossStats.winRate = Zero

C3_Witness ==
    /\ Returned
    /\ winLossStats.totalResolved = 2
    /\ winLossStats.losses = 2
    /\ winLossStats.winRate = Zero

\* C4: profitFactor is Infinity exactly when totalLossAmount is 0 and
\* totalWinAmount is positive, and when totalLossAmount is positive it is the
\* quotient totalWinAmount / totalLossAmount.
C4_ProfitFactorInfinityOrQuotient ==
    Returned =>
        /\ (winLossStats.profitFactor = Infinity)
               <=> /\ FieldIs("totalLossAmount", 0)
                   /\ "totalWinAmount" \in DOMAIN winLossStats
                   /\ winLossStats.totalWinAmount > 0
        /\ ("totalLossAmount" \in DOMAIN winLossStats
                /\ winLossStats.totalLossAmount > 0)
               => /\ winLossStats.profitFactor.d > 0
                  /\ winLossStats.profitFactor.n * winLossStats.totalLossAmount
                         = winLossStats.totalWinAmount * winLossStats.profitFactor.d

C4_Witness ==
    /\ Returned
    /\ winLossStats.profitFactor = Infinity
    /\ winLossStats.wins = 2
    /\ winLossStats.totalResolved = 3

\* a field that is 0, or that the result does not carry
ZeroOrMissing(field) ==
    field \in DOMAIN winLossStats => winLossStats[field] = 0

\* C5 as stated: profitFactor is 0 exactly when totalWinAmount and
\* totalLossAmount are both 0.
C5_Original ==
    Returned =>
        (winLossStats.profitFactor = Zero)
            <=> (ZeroOrMissing("totalWinAmount") /\ ZeroOrMissing("totalLossAmount"))

\* C5 (amended): profitFactor is 0 exactly when totalWinAmount is 0 (or is not
\* carried, as in the result for no closed positions), whatever
\* totalLossAmount is.
C5_ProfitFactorZeroIffNoWinAmount ==
    Returned =>
        (winLossStats.profitFactor = Zero) <=> ZeroOrMissing("totalWinAmount")

C5_Witness ==
    /\ Returned
    /\ winLossStats.profitFactor = Zero
    /\ FieldIs("totalWinAmount", 0)
    /\ "totalLossAmount" \in DOMAIN winLossStats
    /\ winLossStats.totalLossAmount > 0

\* the bands as the claim words them, in cents; a missing avgPrice is band 1
InBand(p, band) ==
    LET price == IF "avgPrice" \in DOMAIN p THEN p.avgPrice ELSE 0
    IN  CASE band = 1 -> price <= 20
          [] band = 2 -> 20 < price /\ price <= 40
          [] band = 3 -> 40 < price /\ price <= 60
          [] band = 4 -> 60 < price /\ price <= 80
          [] band = 5 -> 80 < price

\* C6: each closed position is counted in the band of the chain <= 0.20,
\* <= 0.40, <= 0.60, <= 0.80, else; 0.20, 0.40, 0.60 and 0.80 fall in the
\* lower band and a missing avgPrice in band 1.
C6_BoundaryInLowerBand ==
    (Returned /\ Len(GivenPositions) > 0) =>
        \A band \in 1..5 :
            winLossStats.winLossByPriceRange[RangeLabels[band]].count
                = CountWhere(GivenPositions, LAMBDA p : InBand(p, band))

C6_Witness ==
    /\ Returned
    /\ Len(GivenPositions) = 3
    /\ \E i \in DOMAIN GivenPositions :
           "avgPrice" \in DOMAIN GivenPositions[i] /\ GivenPositions[i].avgPrice = 20
    /\ \E i \in DOMAIN GivenPositions :
           "avgPrice" \in DOMAIN GivenPositions[i] /\ GivenPositions[i].avgPrice = 80
    /\ winLossStats.winLossByPriceRange[Longshots].count = 1
    /\ winLossStats.winLossByPriceRange[Favorites].count = 1
    /\ winLossStats.winLossByPriceRange[Underdogs].count = 0

BucketFields == {"count", "wins", "losses", "totalPnl", "winRate"}

\* C7: for every input, the empty array and a missing argument included, the
\* price-range map holds all five buckets, each with count, wins, losses,
\* totalPnl and winRate.
C7_FiveBucketsAlwaysPresent ==
    Returned =>
        /\ DOMAIN winLossStats.winLossByPriceRange = {RangeLabels[k] : k \in 1..5}
        /\ \A label \in DOMAIN winLossStats.winLossByPriceRange :
               DOMAIN winLossStats.winLossByPriceRange[label] = BucketFields

\* C8: with no closed positions every numeric win/loss field of the non-empty
\* result is present and 0, biggestWin and biggestLoss are null and
\* winLossByCategory is an empty map.
C8_EmptyResultAllZero ==
    (Returned /\ Len(GivenPositions) = 0) =>
        /\ \A field \in {"totalResolved", "wins", "losses", "breakeven",
                         "totalRealizedPnL", "totalWinAmount", "totalLossAmount"} :
               FieldIs(field, 0)
        /\ \A field \in {"winRate", "avgWinAmount", "avgLossAmount",
                         "profitFactor", "expectancy"} :
               FieldIs(field, Zero)
        /\ FieldIs("biggestWin", Null)
        /\ FieldIs("biggestLoss", Null)
        /\ FieldIs("winLossByCategory", EmptyObject)

BucketConsistent(data) ==
    /\ data.wins + data.losses <= data.count
    /\ data.count > 0 =>
           /\ data.winRate.d > 0
           /\ data.winRate.n * data.count = data.wins * 100 * data.winRate.d
    /\ data.count = 0 => data.winRate = Zero

\* C9: in every category bucket and every price-range bucket, wins + losses is
\* at most count, and winRate is wins / count * 100 when count is positive and
\* 0 when count is 0.
C9_BucketWinRates ==
    Returned =>
        /\ \A cat \in DOMAIN winLossStats.winLossByCategory :
               BucketConsistent(winLossStats.winLossByCategory[cat])
        /\ \A label \in DOMAIN winLossStats.winLossByPriceRange :
               BucketConsistent(winLossStats.winLossByPriceRange[label])

C9_Witness ==
    /\ Returned
    /\ "Other" \in DOMAIN winLossStats.winLossByCategory
    /\ winLossStats.winLossByCategory["Other"].count = 3
    /\ winLossStats.winLossByCategory["Other"].wins = 1
    /\ winLossStats.winLossByCategory["Other"].losses = 1
    /\ winLossStats.winLossByPriceRange[Longshots].count = 0
    /\ winLossStats.winLossByPriceRange[TossUps].count = 1

-----------------------------------------------------------------------------
(* getMonthlyVolume *)

\* new Date(seconds * 1000): the UTC calendar date of an epoch time, by the
\* proleptic Gregorian calendar that getUTCFullYear and getUTCMonth follow
UTCDate(seconds) ==
    LET days == seconds \div 86400
        z    == days + 719468
        era  == z \div 146097
        doe  == z - era * 146097
        yoe  == (doe - doe \div 1460 + doe \div 36524 - doe \div 146096) \div 365
        doy  == doe - (365 * yoe + yoe \div 4 - yoe \div 100)
        mp   == (5 * doy + 2) \div 153
        m    == IF mp < 10 THEN mp + 3 ELSE mp - 9
    IN  [year  |-> yoe + era * 400 + (IF m <= 2 THEN 1 ELSE 0),
         month |-> m - 1,                      \* as getUTCMonth: 0..11
         day   |-> doy - (153 * mp + 2) \div 5 + 1]

Digits == "0123456789"

\* String(n) for a natural number
RECURSIVE NatToString(_)
NatToString(n) ==
    IF n < 10 THEN SubSeq(Digits, n + 1, n + 1)
    ELSE NatToString(n \div 10) \o SubSeq(Digits, (n % 10) + 1, (n % 10) + 1)

\* str.padStart(len, '0')
RECURSIVE PadStart(_, _)
PadStart(str, len) == IF Len(str) >= len THEN str ELSE PadStart("0" \o str, len)

\* `${date.getUTCFullYear()}-${String(date.getUTCMonth() + 1).padStart(2, '0')}`
MonthKey(trade) ==
    LET date == UTCDate(trade.timestamp)
    IN  NatToString(date.year) \o "-" \o PadStart(NatToString(date.month + 1), 2)

\* the collation rank of the characters a month key is made of
KeyChars == "-0123456789"

CharRank(c) == CHOOSE k \in 1..Len(KeyChars) : SubSeq(KeyChars, k, k) = c

\* a.localeCompare(b) < 0 for strings over KeyChars
RECURSIVE ComesBefore(_, _)
ComesBefore(a, b) ==
    IF Len(b) = 0 THEN FALSE
    ELSE IF Len(a) = 0 THEN TRUE
    ELSE LET ra == CharRank(SubSeq(a, 1, 1))
             rb == CharRank(SubSeq(b, 1, 1))
         IN  IF ra # rb THEN ra < rb
             ELSE ComesBefore(SubSeq(a, 2, Len(a)), SubSeq(b, 2, Len(b)))

\* An object with string keys is the sequence of its [key, value] entries in
\* the order Object.entries enumerates them, which is insertion order.
HasKey(entries, key) == \E i \in DOMAIN entries : entries[i].key = key

IndexOfKey(entries, key) == CHOOSE i \in DOMAIN entries : entries[i].key = key

NewMonth == [volume |-> 0, trades |-> 0, buys |-> 0, sells |-> 0]

\* as AddTrade, counting a trade only when it has a side
AddTrade_SidedOnly(month, trade) ==
    [volume |-> month.volume + OrZero(trade, "usdcSize"),
     trades |-> IF OrEmpty(trade, "side") \in {"BUY", "SELL"}
                THEN month.trades + 1 ELSE month.trades,
     buys   |-> IF OrEmpty(trade, "side") = "BUY" THEN month.buys + 1 ELSE month.buys,
     sells  |-> IF OrEmpty(trade, "side") = "SELL" THEN month.sells + 1 ELSE month.sells]

\* volume += usdcSize || 0, trades++, buys++ / sells++ by side
AddTrade(month, trade) ==
    [volume |-> month.volume + OrZero(trade, "usdcSize"),
     trades |-> month.trades + 1,
     buys   |-> IF OrEmpty(trade, "side") = "BUY" THEN month.buys + 1 ELSE month.buys,
     sells  |-> IF OrEmpty(trade, "side") = "SELL" THEN month.sells + 1 ELSE month.sells]

\* trades.forEach: a month is created when its key is first seen
RECURSIVE MonthlyPass(_, _)
MonthlyPass(monthly, ts) ==
    IF ts = <<>> THEN monthly
    ELSE LET trade  == Head(ts)
             key    == MonthKey(trade)
             seeded == IF HasKey(monthly, key) THEN monthly
                       ELSE Append(monthly, [key |-> key, value |-> NewMonth])
             i      == IndexOfKey(seeded, key)
         IN  MonthlyPass([seeded EXCEPT ![i].value = AddTrade(@, trade)], Tail(ts))

\* one entry placed into an already sorted array, after the entries that do
\* not come after it (Array.prototype.sort is stable)
RECURSIVE InsertSorted(_, _)
InsertSorted(sorted, entry) ==
    IF sorted = <<>> THEN <<entry>>
    ELSE IF ComesBefore(entry.key, Head(sorted).key)
         THEN <<entry>> \o sorted
         ELSE <<Head(sorted)>> \o InsertSorted(Tail(sorted), entry)

\* Object.entries(monthly).sort(([a], [b]) => a.localeCompare(b))
RECURSIVE SortByKey(_)
SortByKey(entries) ==
    IF entries = <<>> THEN <<>>
    ELSE InsertSorted(SortByKey(SubSeq(entries, 1, Len(entries) - 1)),
                      entries[Len(entries)])

\* .reduce((obj, [key, value]) => { obj[key] = value; return obj }, {})
RECURSIVE FromEntries(_, _)
FromEntries(obj, entries) ==
    IF entries = <<>> THEN obj
    ELSE LET e == Head(entries)
         IN  FromEntries(IF HasKey(obj, e.key)
                         THEN [obj EXCEPT ![IndexOfKey(obj, e.key)].value = e.value]
                         ELSE Append(obj, e),
                         Tail(entries))

\* as getMonthlyVolume, without the sort
getMonthlyVolume_InsertionOrder(ts) == FromEntries(<<>>, MonthlyPass(<<>>, ts))

getMonthlyVolume(ts) == FromEntries(<<>>, SortByKey(MonthlyPass(<<>>, ts)))

-----------------------------------------------------------------------------
(* Inputs of getMonthlyVolume *)

\* trades on both sides of a year end and of a leap day, in months that are
\* out of order when taken in the order written here
TradePool ==
    { [type |-> "TRADE", timestamp |-> 1709251200, side |-> "BUY",  usdcSize |-> 10],
      [type |-> "TRADE", timestamp |-> 1709251199, side |-> "SELL", usdcSize |-> 5],
      [type |-> "TRADE", timestamp |-> 1704067200, side |-> "BUY",  usdcSize |-> 7],
      [type |-> "TRADE", timestamp |-> 1704067199, side |-> "SELL", usdcSize |-> 3],
      [type |-> "TRADE", timestamp |-> 1728000000, side |-> "BUY"],
      [type |-> "TRADE", timestamp |-> 1698796800, side |-> "SELL", usdcSize |-> 20],
      [type |-> "TRADE", timestamp |-> 1672531199, side |-> "BUY",  usdcSize |-> 1],
      [type |-> "TRADE", timestamp |-> 1704070800, side |-> "SELL", usdcSize |-> 2] }

TradeInputs == SeqsUpTo(TradePool, MaxTrades)

InitMonthly ==
    /\ trades \in TradeInputs
    /\ monthlyVolume = <<>>
    /\ closedPositions = Undefined
    /\ winLossStats = EmptyObject
    /\ appData = EmptyObject
    /\ stats = EmptyObject
    /\ calls = <<>>
    /\ WalletInitial
    /\ ActivityInitial
    /\ DataInitial
    /\ ChatInitial
    /\ TagsInitial
    /\ pc = "call"

\* monthlyVolume = getMonthlyVolume(trades)
CallGetMonthlyVolume ==
    /\ pc = "call"
    /\ monthlyVolume' = getMonthlyVolume(trades)
    /\ pc' = "done"
    /\ UNCHANGED <<trades, closedPositions, winLossStats, appData, stats, calls, walletVars, activityVars, dataVars, chatVars, tagVars>>

NextMonthly == CallGetMonthlyVolume

SpecMonthly == InitMonthly /\ [][NextMonthly]_vars

-----------------------------------------------------------------------------
(* Properties of getMonthlyVolume, checked under SpecMonthly *)

\* C10: whatever the order of the trades, the keys of monthlyVolume are
\* enumerated in strictly ascending lexicographic order, and there is exactly
\* one entry per distinct UTC month of a trade.
C10_MonthlyKeysAscending ==
    Returned =>
        /\ \A i \in 1..(Len(monthlyVolume) - 1) :
               ComesBefore(monthlyVolume[i].key, monthlyVolume[i + 1].key)
        /\ {monthlyVolume[i].key : i \in DOMAIN monthlyVolume}
               = {MonthKey(trades[j]) : j \in DOMAIN trades}
        /\ Len(monthlyVolume) = Cardinality({MonthKey(trades[j]) : j \in DOMAIN trades})

C10_Witness ==
    /\ Returned
    /\ Len(trades) = 3
    /\ trades[1].timestamp = 1709251200
    /\ trades[2].timestamp = 1704067199
    /\ trades[3].timestamp = 1704067200
    /\ Len(monthlyVolume) = 3
    /\ monthlyVolume[1].key = "2023-12"
    /\ monthlyVolume[2].key = "2024-01"
    /\ monthlyVolume[3].key = "2024-03"

-----------------------------------------------------------------------------
(* categorizeMarkets *)

MarketKeywords ==
    << <<"Politics", {"election", "president", "congress", "senate", "trump",
                      "biden", "democrat", "republican", "vote", "governor",
                      "mayor", "political", "impeach"}>>,
       <<"Sports", {"nba", "nfl", "mlb", "world cup", "super bowl",
                    "championship", "playoffs", "game", "team", "player",
                    "win", "score", "match"}>>,
       <<"Crypto", {"bitcoin", "ethereum", "btc", "eth", "crypto", "token",
                    "coin", "defi", "nft", "blockchain"}>>,
       <<"Economy", {"fed", "interest rate", "inflation", "gdp", "recession",
                     "economy", "market", "stock", "treasury", "unemployment"}>>,
       <<"Entertainment", {"oscar", "emmy", "movie", "film", "album", "spotify",
                           "netflix", "celebrity", "award"}>>,
       <<"Science", {"climate", "nasa", "space", "ai", "artificial intelligence",
                     "scientific", "research", "temperature"}>> >>

CategoryNames ==
    {"Politics", "Sports", "Crypto", "Economy", "Entertainment", "Science", "Other"}

\* title.toLowerCase() followed by the keyword loop of categorizeMarkets,
\* tabulated per title
MarketCategoryOfTitle ==
    [title \in Titles |-> FirstMatch(MarketKeywords, ToLowerCase(title), 1)]

\* trade.conditionId, which may be undefined
ConditionId(trade) ==
    IF "conditionId" \in DOMAIN trade
    THEN [defined |-> TRUE, value |-> trade.conditionId] ELSE Undefined

\* as TradeCategory, classifying by the keyword lists of the closed positions
TradeCategory_PositionKeywords(trade) == CategoryOfTitle[OrEmpty(trade, "title")]

TradeCategory(trade) == MarketCategoryOfTitle[OrEmpty(trade, "title")]

\* as MarketsPass, counting every trade
RECURSIVE MarketsPass_EveryTrade(_, _, _)
MarketsPass_EveryTrade(categories, seen, ts) ==
    IF ts = <<>> THEN categories
    ELSE LET category == TradeCategory(Head(ts))
         IN  MarketsPass_EveryTrade([categories EXCEPT ![category] = @ + 1],
                                    seen, Tail(ts))

\* trades.forEach: a market already in the marketCategories map is skipped,
\* a new one is counted in the category of this trade's title
RECURSIVE MarketsPass(_, _, _)
MarketsPass(categories, seen, ts) ==
    IF ts = <<>> THEN categories
    ELSE LET trade       == Head(ts)
             conditionId == ConditionId(trade)
             category    == TradeCategory(trade)
         IN  IF conditionId \in seen
             THEN MarketsPass(categories, seen, Tail(ts))
             ELSE MarketsPass([categories EXCEPT ![category] = @ + 1],
                              seen \cup {conditionId}, Tail(ts))

categorizeMarkets(ts) == MarketsPass([c \in CategoryNames |-> 0], {}, ts)

-----------------------------------------------------------------------------
(* getHourDistribution, getDayDistribution *)

\* new Date(seconds * 1000).getUTCHours()
UTCHours(seconds) == (seconds % 86400) \div 3600

\* new Date(seconds * 1000).getUTCDay(): 0 is Sunday; 1 January 1970 was a
\* Thursday
UTCDay(seconds) == ((seconds \div 86400) + 4) % 7

dayNames ==
    <<"Sunday", "Monday", "Tuesday", "Wednesday", "Thursday", "Friday", "Saturday">>

RECURSIVE HoursPass(_, _)
HoursPass(hours, ts) ==
    IF ts = <<>> THEN hours
    ELSE HoursPass([hours EXCEPT ![UTCHours(Head(ts).timestamp)] = @ + 1], Tail(ts))

\* Array(24).fill(0), indexed 0..23
getHourDistribution(ts) == HoursPass([h \in 0..23 |-> 0], ts)

RECURSIVE DaysPass(_, _)
DaysPass(days, ts) ==
    IF ts = <<>> THEN days
    ELSE DaysPass([days EXCEPT ![dayNames[UTCDay(Head(ts).timestamp) + 1]] = @ + 1],
                  Tail(ts))

getDayDistribution(ts) == DaysPass([d \in {dayNames[k] : k \in 1..7} |-> 0], ts)

-----------------------------------------------------------------------------
(* calculateStats *)

\* the value of a number that is Not-a-Number
NaN == [n |-> 0, d |-> 0]

\* a JS string where a number may stand as well
Str(s) == [str |-> s]

\* new Date(seconds * 1000); the time value is held in seconds, the factor
\* 1000 being beyond the integers of the model checker
NewDate(seconds) == [time |-> seconds]

RECURSIVE Pow10(_)
Pow10(f) == IF f = 0 THEN 1 ELSE 10 * Pow10(f - 1)

\* q.toFixed(f) for q >= 0: the nearest multiple of 10^-f, the larger one of
\* two that are equally near, written with f decimals
ToFixed(q, f) ==
    LET scaled == (2 * q.n * Pow10(f) + q.d) \div (2 * q.d)
    IN  NatToString(scaled \div Pow10(f)) \o "."
            \o PadStart(NatToString(scaled % Pow10(f)), f)

\* as ISODate, cut after the month
ISODate_MonthOnly(seconds) ==
    LET date == UTCDate(seconds)
    IN  PadStart(NatToString(date.year), 4) \o "-"
            \o PadStart(NatToString(date.month + 1), 2)

\* date.toISOString().split('T')[0]
ISODate(seconds) ==
    LET date == UTCDate(seconds)
    IN  PadStart(NatToString(date.year), 4) \o "-"
            \o PadStart(NatToString(date.month + 1), 2) \o "-"
            \o PadStart(NatToString(date.day), 2)

\* as IsTrade, without the filter
IsTrade_Any(a) == TRUE

\* a.type === 'TRADE'
IsTrade(a) == "type" \in DOMAIN a /\ a.type = "TRADE"

IsBuy(t) == "side" \in DOMAIN t /\ t.side = "BUY"

IsSell(t) == "side" \in DOMAIN t /\ t.side = "SELL"

\* arr.reduce((sum, x) => sum + (x[field] || 0), 0)
RECURSIVE SumOrZero(_, _)
SumOrZero(s, field) ==
    IF s = <<>> THEN 0 ELSE OrZero(Head(s), field) + SumOrZero(Tail(s), field)

\* arr.reduce((sum, t) => sum + t.price, 0) / count: adding an undefined
\* price gives NaN
AvgPrice(s, count) ==
    IF \E i \in DOMAIN s : "price" \notin DOMAIN s[i] THEN NaN
    ELSE Quot(SumOrZero(s, "price"), count)

MinOf(S) == CHOOSE x \in S : \A y \in S : x <= y

MaxOf(S) == CHOOSE x \in S : \A y \in S : x >= y

\* as BuySellRatio, the infinite marker whenever there are no sells
BuySellRatio_NoBuysCheck(buys, sells) ==
    IF sells > 0 THEN ToFixed(Quot(buys, sells), 2) ELSE "<U+221E>"

\* as BuySellRatio, with toFixed(1)
BuySellRatio_OneDecimal(buys, sells) ==
    IF sells > 0 THEN ToFixed(Quot(buys, sells), 1)
    ELSE IF buys > 0 THEN "<U+221E>" ELSE "-"

\* the one-character string U+221E (the infinity sign), which cannot be
\* written in a string here
InfiniteMarker == "<U+221E>"

NoRatioMarker == "-"

\* sells > 0 ? (buys / sells).toFixed(2) : buys > 0 ? InfiniteMarker : '-'
BuySellRatio(buys, sells) ==
    IF sells > 0 THEN ToFixed(Quot(buys, sells), 2)
    ELSE IF buys > 0 THEN InfiniteMarker ELSE NoRatioMarker

\* tradingDays > 0 ? (totalTrades / tradingDays).toFixed(1) : 0
TradesPerDay(totalTrades, tradingDays) ==
    IF tradingDays > 0 THEN Str(ToFixed(Quot(totalTrades, tradingDays), 1))
    ELSE Zero

\* what a call that threw leaves to its caller
Threw(error) == [threw |-> error]

calculateStats(d) ==
    LET ts == SelectSeq(d.activity, IsTrade)
    IN
    \* toISOString throws for the Invalid Date of an undefined timestamp
    IF \E i \in DOMAIN ts : "timestamp" \notin DOMAIN ts[i]
    THEN Threw("RangeError: Invalid time value")
    ELSE
    LET totalTrades  == Len(ts)
        totalVolume  == SumOrZero(ts, "usdcSize")
        buyTrades    == SelectSeq(ts, IsBuy)
        sellTrades   == SelectSeq(ts, IsSell)
        buys         == Len(buyTrades)
        sells        == Len(sellTrades)
        tradingDays  == Cardinality({ISODate(ts[i].timestamp) : i \in DOMAIN ts})
        timestamps   == {ts[i].timestamp : i \in DOMAIN ts}
    IN  [totalTrades        |-> totalTrades,
         totalVolume        |-> totalVolume,
         uniqueMarkets      |-> Cardinality({ConditionId(ts[i]) : i \in DOMAIN ts}),
         avgTradeSize       |-> IF totalTrades > 0
                                THEN Quot(totalVolume, totalTrades) ELSE Zero,
         buys               |-> buys,
         sells              |-> sells,
         buySellRatio       |-> BuySellRatio(buys, sells),
         tradingDays        |-> tradingDays,
         firstTrade         |-> IF Len(ts) > 0
                                THEN NewDate(MinOf(timestamps)) ELSE Null,
         lastTrade          |-> IF Len(ts) > 0
                                THEN NewDate(MaxOf(timestamps)) ELSE Null,
         tradesPerDay       |-> TradesPerDay(totalTrades, tradingDays),
         buyVolume          |-> SumOrZero(buyTrades, "usdcSize"),
         sellVolume         |-> SumOrZero(sellTrades, "usdcSize"),
         avgBuyPrice        |-> IF buys > 0 THEN AvgPrice(buyTrades, buys) ELSE Zero,
         avgSellPrice       |-> IF sells > 0 THEN AvgPrice(sellTrades, sells) ELSE Zero,
         marketCategories   |-> categorizeMarkets(ts),
         totalPositionValue |-> SumOrZero(d.positions, "currentValue"),
         totalUnrealizedPnL |-> SumOrZero(d.positions, "cashPnl"),
         hourDistribution   |-> getHourDistribution(ts),
         dayDistribution    |-> getDayDistribution(ts),
         monthlyVolume      |-> getMonthlyVolume(ts),
         positions          |-> Len(d.positions)]
        @@ calculateWinLossStats(Array(d.closedPositions))

-----------------------------------------------------------------------------
(* Inputs of calculateStats *)

\* activity records: trades of both sides and of no side, on the same UTC
\* day, on either side of midnight and at both ends of a month, two trades
\* of one market under
\* different titles, records that are not trades (another type, no type),
\* and trades without usdcSize, title, price or timestamp
ActivityPool ==
    { [type |-> "TRADE", timestamp |-> 1704067200, side |-> "BUY", price |-> 50,
       size |-> 20, usdcSize |-> 10, conditionId |-> "m1", title |-> "NBA Finals Winner"],
      [type |-> "TRADE", timestamp |-> 1704070800, side |-> "SELL", price |-> 60,
       size |-> 9, usdcSize |-> 5, conditionId |-> "m1", title |-> "Foo bar"],
      [type |-> "TRADE", timestamp |-> 1704067199, side |-> "BUY", price |-> 20,
       conditionId |-> "m2", title |-> "Who will win the Oscar"],
      [type |-> "TRADE", timestamp |-> 1706745599, price |-> 30,
       usdcSize |-> 7, conditionId |-> "m3"],
      [type |-> "REDEEM", timestamp |-> 1709251200, usdcSize |-> 100,
       conditionId |-> "m4", title |-> "Trump wins the election"],
      [timestamp |-> 1704067200, side |-> "BUY", price |-> 40, size |-> 8,
       usdcSize |-> 3, conditionId |-> "m5", title |-> "Will BTC hit 100k"],
      [type |-> "TRADE", side |-> "BUY", price |-> 40,
       usdcSize |-> 2, conditionId |-> "m2", title |-> "Will BTC hit 100k"],
      [type |-> "TRADE", timestamp |-> 1704067200, side |-> "SELL",
       usdcSize |-> 4, conditionId |-> "m3", title |-> "Fed rate cut in March"] }

PositionPool ==
    { [currentValue |-> 100, initialValue |-> 90, cashPnl |-> -5, title |-> "Foo bar"],
      [initialValue |-> 10, title |-> "NBA Finals Winner"] }

ScenarioWin ==
    [realizedPnl |-> 50, avgPrice |-> 15, title |-> "Will BTC hit 100k"]

ScenarioLoss ==
    [realizedPnl |-> -20, avgPrice |-> 70, title |-> "NBA Finals Winner"]

ClosedChoices ==
    { <<>>, <<ScenarioWin, ScenarioLoss>>, <<[avgPrice |-> 81, title |-> "Foo bar"]>> }

StatsInputs ==
    [activity        : SeqsUpTo(ActivityPool, MaxActivity),
     positions       : SeqsUpTo(PositionPool, MaxPositions),
     closedPositions : ClosedChoices]

InitStats ==
    /\ appData \in StatsInputs
    /\ stats = EmptyObject
    /\ closedPositions = Undefined
    /\ winLossStats = EmptyObject
    /\ trades = <<>>
    /\ monthlyVolume = <<>>
    /\ calls = <<>>
    /\ WalletInitial
    /\ ActivityInitial
    /\ DataInitial
    /\ ChatInitial
    /\ TagsInitial
    /\ pc = "call"

\* const stats = calculateStats(data)
CallCalculateStats ==
    /\ pc = "call"
    /\ stats' = calculateStats(appData)
    /\ pc' = "done"
    /\ UNCHANGED <<appData, closedPositions, winLossStats, trades, monthlyVolume, calls, walletVars, activityVars, dataVars, chatVars, tagVars>>

NextStats == CallCalculateStats

SpecStats == InitStats /\ [][NextStats]_vars

-----------------------------------------------------------------------------
(* Properties of calculateStats, checked under SpecStats *)

\* the call returned a Stats object (it did not throw)
Completed == Returned /\ "threw" \notin DOMAIN stats

\* the records of the activity array that the filter lets through
GivenTrades == SelectSeq(appData.activity, LAMBDA a : "type" \in DOMAIN a /\ a.type = "TRADE")

\* reading a decimal string such as "10.0" back as a fraction
DigitValue(c) == (CHOOSE k \in 1..10 : SubSeq(Digits, k, k) = c) - 1

RECURSIVE DigitsToNat(_)
DigitsToNat(str) ==
    IF Len(str) = 0 THEN 0
    ELSE DigitsToNat(SubSeq(str, 1, Len(str) - 1)) * 10
             + DigitValue(SubSeq(str, Len(str), Len(str)))

IsDecimal(str, f) ==
    /\ Len(str) >= f + 2
    /\ SubSeq(str, Len(str) - f, Len(str) - f) = "."
    /\ \A i \in (1..Len(str)) \ {Len(str) - f} :
           \E k \in 1..10 : SubSeq(Digits, k, k) = SubSeq(str, i, i)

DecimalValue(str, f) ==
    [n |-> DigitsToNat(SubSeq(str, 1, Len(str) - f - 1)) * Pow10(f)
               + DigitsToNat(SubSeq(str, Len(str) - f + 1, Len(str))),
     d |-> Pow10(f)]

\* the decimal string str has f decimals and is a / b rounded to them
IsRounded(str, f, a, b) ==
    /\ IsDecimal(str, f)
    /\ LET v == DecimalValue(str, f)
       IN  2 * Abs(v.n * b - a * v.d) <= b

\* C11: with activity, positions and closedPositions all empty, calculateStats
\* returns the neutral Stats: zero counts, volume and averages, the no-ratio
\* marker, null first and last trade and 24 zero hour counters.
C11_EmptyInputNeutralStats ==
    (Returned /\ appData.activity = <<>> /\ appData.positions = <<>>
              /\ appData.closedPositions = <<>>) =>
        /\ "threw" \notin DOMAIN stats
        /\ stats.totalTrades = 0
        /\ stats.totalVolume = 0
        /\ stats.uniqueMarkets = 0
        /\ stats.avgTradeSize = Zero
        /\ stats.buys = 0
        /\ stats.sells = 0
        /\ stats.buySellRatio = NoRatioMarker
        /\ stats.tradingDays = 0
        /\ stats.tradesPerDay = Zero
        /\ stats.firstTrade = Null
        /\ stats.lastTrade = Null
        /\ stats.avgBuyPrice = Zero
        /\ stats.avgSellPrice = Zero
        /\ DOMAIN stats.hourDistribution = 0..23
        /\ \A h \in 0..23 : stats.hourDistribution[h] = 0

C11_Witness ==
    /\ Completed
    /\ appData.activity = <<>>
    /\ appData.positions = <<>>
    /\ appData.closedPositions = <<>>
    /\ stats.totalResolved = 0

\* every missing numeric field of the record set to 0
WithZeros(record, fields) ==
    [f \in DOMAIN record \cup fields |->
        IF f \in DOMAIN record THEN record[f] ELSE 0]

ZeroFilled(d) ==
    [activity        |-> [i \in DOMAIN d.activity |->
                             WithZeros(d.activity[i], {"usdcSize", "price", "timestamp"})],
     positions       |-> [i \in DOMAIN d.positions |->
                             WithZeros(d.positions[i], {"currentValue", "cashPnl"})],
     closedPositions |-> [i \in DOMAIN d.closedPositions |->
                             WithZeros(d.closedPositions[i], {"realizedPnl", "avgPrice"})]]

NumericOutputs ==
    {"totalTrades", "totalVolume", "uniqueMarkets", "avgTradeSize", "buys", "sells",
     "buySellRatio", "tradingDays", "tradesPerDay", "buyVolume", "sellVolume",
     "avgBuyPrice", "avgSellPrice", "marketCategories", "totalPositionValue",
     "totalUnrealizedPnL", "hourDistribution", "dayDistribution", "monthlyVolume",
     "totalResolved", "wins", "losses", "winRate", "totalRealizedPnL",
     "avgWinAmount", "avgLossAmount", "profitFactor", "winLossByCategory",
     "winLossByPriceRange"}

\* C12: when a numeric field of an input record is missing, calculateStats does
\* not throw and every numeric output is what it would be with 0 in that field.
C12_MissingNumericAsZero ==
    Returned =>
        /\ "threw" \notin DOMAIN stats
        /\ LET filled == calculateStats(ZeroFilled(appData))
           IN  \A f \in NumericOutputs : stats[f] = filled[f]

\* the UTC day number of an epoch time
DayNumber(seconds) == seconds \div 86400

\* C13: tradingDays is the number of distinct UTC dates of the trades;
\* tradesPerDay is totalTrades / tradingDays to one decimal, 0 without trading
\* days; N trades on one date give tradingDays 1 and tradesPerDay N; and
\* 0 <= tradingDays <= totalTrades, with 0 only when there are no trades.
C13_TradingDays ==
    Completed =>
        /\ stats.tradingDays
               = Cardinality({DayNumber(GivenTrades[i].timestamp) : i \in DOMAIN GivenTrades})
        /\ stats.tradingDays = 0 => stats.tradesPerDay = Zero
        /\ stats.tradingDays > 0 =>
               /\ DOMAIN stats.tradesPerDay = {"str"}
               /\ IsRounded(stats.tradesPerDay.str, 1, stats.totalTrades, stats.tradingDays)
        /\ (stats.totalTrades > 0
               /\ \A i, j \in DOMAIN GivenTrades :
                      DayNumber(GivenTrades[i].timestamp) = DayNumber(GivenTrades[j].timestamp))
               => /\ stats.tradingDays = 1
                  /\ DecimalValue(stats.tradesPerDay.str, 1)
                         = [n |-> 10 * Len(GivenTrades), d |-> 10]
        /\ 0 <= stats.tradingDays
        /\ stats.tradingDays <= stats.totalTrades
        /\ stats.tradingDays = 0 => stats.totalTrades = 0

C13_Witness ==
    /\ Completed
    /\ stats.totalTrades = 3
    /\ stats.tradingDays = 1
    /\ stats.tradesPerDay = Str("3.0")
    /\ appData.activity[1].timestamp # appData.activity[2].timestamp

\* C14: buySellRatio is buys / sells to two decimals when sells > 0, the
\* infinite marker exactly when sells = 0 and buys > 0, and the no-ratio marker
\* exactly when both are 0; buys and sells count the trades of side BUY and
\* SELL.
C14_BuySellRatio ==
    Completed =>
        /\ stats.buys = CountWhere(GivenTrades, LAMBDA t : "side" \in DOMAIN t /\ t.side = "BUY")
        /\ stats.sells = CountWhere(GivenTrades, LAMBDA t : "side" \in DOMAIN t /\ t.side = "SELL")
        /\ stats.sells > 0 => IsRounded(stats.buySellRatio, 2, stats.buys, stats.sells)
        /\ (stats.buySellRatio = InfiniteMarker) <=> (stats.sells = 0 /\ stats.buys > 0)
        /\ (stats.buySellRatio = NoRatioMarker) <=> (stats.sells = 0 /\ stats.buys = 0)

C14_Witness ==
    /\ Completed
    /\ stats.buys = 1
    /\ stats.sells = 2
    /\ stats.buySellRatio = "0.50"

\* the trades that are the first of their market in the input order
FirstOfMarket(ts) ==
    {i \in DOMAIN ts : \A j \in 1..(i - 1) : ConditionId(ts[j]) # ConditionId(ts[i])}

RECURSIVE SumCounts(_, _)
SumCounts(counts, keys) ==
    IF keys = {} THEN 0
    ELSE LET key == CHOOSE k \in keys : TRUE
         IN  counts[key] + SumCounts(counts, keys \ {key})

\* C15: every distinct conditionId is counted once, in the category that the
\* keyword order gives the title of its first trade; the seven counts sum to
\* uniqueMarkets and later trades of a market change nothing.
C15_MarketCategories ==
    Completed =>
        /\ DOMAIN stats.marketCategories = CategoryNames
        /\ \A c \in CategoryNames :
               stats.marketCategories[c]
                   = Cardinality({i \in FirstOfMarket(GivenTrades) :
                                     MarketCategoryOfTitle[OrEmpty(GivenTrades[i], "title")]
                                         = c})
        /\ SumCounts(stats.marketCategories, CategoryNames) = stats.uniqueMarkets
        /\ stats.uniqueMarkets
               = Cardinality({ConditionId(GivenTrades[i]) : i \in DOMAIN GivenTrades})

C15_Witness ==
    /\ Completed
    /\ stats.totalTrades = 3
    /\ stats.uniqueMarkets = 2
    /\ stats.marketCategories["Sports"] = 2
    /\ stats.marketCategories["Other"] = 0
    /\ appData.activity[1].title = "NBA Finals Winner"
    /\ appData.activity[2].title = "Foo bar"
    /\ appData.activity[3].title = "Who will win the Oscar"

-----------------------------------------------------------------------------
(* Further properties of calculateWinLossStats, checked under SpecWinLoss *)

Pnl(p) == IF "realizedPnl" \in DOMAIN p THEN p.realizedPnl ELSE 0

\* the index of the earliest position that has the extreme realizedPnl of
\* its partition; sign is 1 for the wins and -1 for the losses
EarliestExtreme(positions, sign) ==
    LET part == {i \in DOMAIN positions : sign * Pnl(positions[i]) > 0}
        best == {i \in part : \A j \in part :
                     sign * Pnl(positions[i]) >= sign * Pnl(positions[j])}
    IN  CHOOSE i \in best : \A j \in best : i <= j

\* C16: biggestWin is the position of maximal realizedPnl among those with
\* realizedPnl > 0, biggestLoss the one of minimal realizedPnl among those
\* with realizedPnl < 0, the earliest in input order on a tie, and each is
\* null exactly when its partition is empty.
C16_BiggestWinAndLoss ==
    Returned =>
        /\ IF \E i \in DOMAIN GivenPositions : Pnl(GivenPositions[i]) > 0
           THEN winLossStats.biggestWin
                    = GivenPositions[EarliestExtreme(GivenPositions, 1)]
           ELSE winLossStats.biggestWin = Null
        /\ IF \E i \in DOMAIN GivenPositions : Pnl(GivenPositions[i]) < 0
           THEN winLossStats.biggestLoss
                    = GivenPositions[EarliestExtreme(GivenPositions, -1)]
           ELSE winLossStats.biggestLoss = Null

C16_Witness ==
    /\ Returned
    /\ Len(GivenPositions) = 3
    /\ Pnl(GivenPositions[1]) = 30
    /\ Pnl(GivenPositions[2]) = 50
    /\ Pnl(GivenPositions[3]) = 50
    /\ GivenPositions[2] # GivenPositions[3]
    /\ winLossStats.biggestWin = GivenPositions[2]
    /\ winLossStats.biggestLoss = Null

\* the scenario of the testable properties
ScenarioInput == Array(<<ScenarioWin, ScenarioLoss>>)

ScenarioTotals ==
    /\ winLossStats.totalResolved = 2
    /\ winLossStats.wins = 1
    /\ winLossStats.losses = 1
    /\ winLossStats.winRate = [n |-> 50, d |-> 1]
    /\ winLossStats.totalRealizedPnL = 30
    /\ winLossStats.profitFactor = [n |-> 5, d |-> 2]

ScenarioBuckets(labels) ==
    /\ DOMAIN winLossStats.winLossByPriceRange = {labels[k] : k \in 1..5}
    /\ winLossStats.winLossByPriceRange[labels[1]].count = 1
    /\ winLossStats.winLossByPriceRange[labels[1]].totalPnl = 50
    /\ winLossStats.winLossByPriceRange[labels[4]].count = 1
    /\ winLossStats.winLossByPriceRange[labels[4]].totalPnl = -20
    /\ \A k \in {2, 3, 5} : winLossStats.winLossByPriceRange[labels[k]].count = 0

\* the five labels as the claim writes them; <U+2013> stands for the en dash,
\* which cannot be written in a string here
ClaimedLabels ==
    <<"0<U+2013>20¢", "20<U+2013>40¢", "40<U+2013>60¢", "60<U+2013>80¢",
      "80<U+2013>100¢">>

-----------------------------------------------------------------------------
(* Further properties of calculateStats, checked under SpecStats *)

\* a record with the fields the data model gives a TradeRecord; title and
\* usdcSize may be absent
IsTradeRecord(a) ==
    /\ {"timestamp", "side", "price", "size", "conditionId"} \subseteq DOMAIN a
    /\ a.side \in {"BUY", "SELL"}

\* a record that says it is something else than a trade
IsOtherType(a) == "type" \in DOMAIN a /\ a.type # "TRADE"

Usdc(a) == IF "usdcSize" \in DOMAIN a THEN a.usdcSize ELSE 0

\* the sum of usdcSize over the records of s at the given indices
RECURSIVE SumUsdcAt(_, _)
SumUsdcAt(s, indices) ==
    IF indices = {} THEN 0
    ELSE LET i == CHOOSE k \in indices : TRUE
         IN  Usdc(s[i]) + SumUsdcAt(s, indices \ {i})

\* totalTrades, totalVolume and avgTradeSize are those of the records that
\* pass the test
TotalsOver(Test(_)) ==
    LET count  == CountWhere(appData.activity, Test)
        volume == SumUsdcAt(appData.activity,
                            {i \in DOMAIN appData.activity : Test(appData.activity[i])})
    IN  /\ stats.totalTrades = count
        /\ stats.totalVolume = volume
        /\ count = 0 => stats.avgTradeSize = Zero
        /\ count > 0 =>
               /\ stats.avgTradeSize.d > 0
               /\ stats.avgTradeSize.n * count = volume * stats.avgTradeSize.d

\* C19 as stated: when every record supplied is a TradeRecord of the data
\* model or a record of another type, totalTrades is the number of
\* TradeRecords, totalVolume the sum of their usdcSize and avgTradeSize the
\* quotient (0 without trades); the records of another type contribute nothing.
C19_Original ==
    (/\ Completed
     /\ \A i \in DOMAIN appData.activity :
            IsTradeRecord(appData.activity[i]) \/ IsOtherType(appData.activity[i]))
        => TotalsOver(IsTradeRecord)

\* C19 (amended): the trades are the records whose type field is 'TRADE':
\* totalTrades is their number, totalVolume the sum of their usdcSize (0 for
\* a missing one) and avgTradeSize the quotient (0 without trades); a record
\* of another type or without a type field contributes to none of them.
C19_TotalsOverTypeTrade ==
    Completed => TotalsOver(LAMBDA a : "type" \in DOMAIN a /\ a.type = "TRADE")

C19_Witness ==
    /\ Completed
    /\ Len(appData.activity) = 3
    /\ \E i \in 1..3 : "type" \notin DOMAIN appData.activity[i]
    /\ \E i \in 1..3 : "type" \in DOMAIN appData.activity[i]
                           /\ appData.activity[i].type = "REDEEM"
    /\ stats.totalTrades = 1
    /\ stats.totalVolume = 10

-----------------------------------------------------------------------------
(* The two classifiers on one title: calculateStats is called with one trade
   and one closed position that carry the same title (or both none) *)

\* the title both records carry; Undefined is a record without a title field
TitleChoices == {Undefined} \cup {Array(t) : t \in Titles}

WithTitle(record, choice) ==
    IF choice.defined THEN record @@ [title |-> choice.value] ELSE record

ClassifyTrades ==
    { [type |-> "TRADE", timestamp |-> 1704067200, side |-> side, price |-> 50,
       size |-> 20, usdcSize |-> 10] @@ market :
          side \in {"BUY", "SELL"}, market \in {EmptyObject, [conditionId |-> "m1"]} }

ClassifyPositions ==
    { [realizedPnl |-> pnl, avgPrice |-> avgPrice] :
          pnl \in {-20, 0, 50}, avgPrice \in {15, 70} }

ClassifyInputs ==
    { [activity        |-> <<WithTitle(trade, choice)>>,
       positions       |-> <<>>,
       closedPositions |-> <<WithTitle(position, choice)>>] :
          trade \in ClassifyTrades, position \in ClassifyPositions,
          choice \in TitleChoices }

InitClassify ==
    /\ appData \in ClassifyInputs
    /\ stats = EmptyObject
    /\ closedPositions = Undefined
    /\ winLossStats = EmptyObject
    /\ trades = <<>>
    /\ monthlyVolume = <<>>
    /\ calls = <<>>
    /\ WalletInitial
    /\ ActivityInitial
    /\ DataInitial
    /\ ChatInitial
    /\ TagsInitial
    /\ pc = "call"

NextClassify == CallCalculateStats

SpecClassify == InitClassify /\ [][NextClassify]_vars

\* the title the two classifiers were given, lower-cased
GivenTitle == ToLowerCase(OrEmpty(appData.activity[1], "title"))

\* the category categorizeMarkets counted the one market in
MarketCategory == CHOOSE c \in DOMAIN stats.marketCategories : stats.marketCategories[c] = 1

\* the category calculateWinLossByCategory made a bucket for
ClosedCategory == CHOOSE c \in DOMAIN stats.winLossByCategory : TRUE

OneCategoryEach ==
    /\ Cardinality({c \in DOMAIN stats.marketCategories : stats.marketCategories[c] = 1}) = 1
    /\ \A c \in DOMAIN stats.marketCategories : stats.marketCategories[c] \in {0, 1}
    /\ Cardinality(DOMAIN stats.winLossByCategory) = 1

MatchesAny(title, words) == \E word \in words : Includes(title, word)

\* the Sports keywords of one list only, those of both lists, and the Politics
\* keywords of either list
SportsOfOneList ==
    (MarketKeywords[2][2] \ CategoryKeywords[2][2]) \cup (CategoryKeywords[2][2] \ MarketKeywords[2][2])

SportsOfBothLists == MarketKeywords[2][2] \cap CategoryKeywords[2][2]

PoliticsOfEitherList == MarketKeywords[1][2] \cup CategoryKeywords[1][2]

\* the titles the claim excepts
Excepted(title) ==
    /\ MatchesAny(title, SportsOfOneList)
    /\ ~MatchesAny(title, PoliticsOfEitherList)
    /\ ~MatchesAny(title, SportsOfBothLists)

\* C20: given the same title, categorizeMarkets and calculateWinLossByCategory
\* answer the same category, except for a title that matches a Sports keyword
\* of one list only, no Politics keyword and no Sports keyword of both lists:
\* there categorizeMarkets answers Sports and calculateWinLossByCategory
\* answers another category.
C20_ClassifiersAgreeUpToSports ==
    Completed =>
        /\ OneCategoryEach
        /\ IF Excepted(GivenTitle)
           THEN MarketCategory = "Sports" /\ ClosedCategory # "Sports"
           ELSE MarketCategory = ClosedCategory

C20_Witness ==
    /\ Completed
    /\ "title" \in DOMAIN appData.activity[1]
    /\ appData.activity[1].title = "Who will win the Oscar"
    /\ appData.closedPositions[1].title = "Who will win the Oscar"
    /\ Excepted(GivenTitle)
    /\ MarketCategory = "Sports"
    /\ ClosedCategory = "Entertainment"

-----------------------------------------------------------------------------
(* calculateStats invoked again and again, as by one analysis after another *)

\* as Invocation, with activity.reverse() applied to the caller's array
Invocation_ReversesActivity(data) ==
    [returned |-> calculateStats(data),
     left     |-> [data EXCEPT !.activity =
                      [i \in DOMAIN data.activity |-> data.activity[Len(data.activity) + 1 - i]]]]

\* as Invocation, with totalTrades counted on from the call before
Invocation_CountsOn(data) ==
    [returned |-> LET result == calculateStats(data)
                  IN  IF "totalTrades" \in DOMAIN result
                      THEN [result EXCEPT !.totalTrades = @ + OrZero(stats, "totalTrades")]
                      ELSE result,
     left     |-> data]

\* one invocation: the value returned and the data object as the call leaves
\* it. Every accumulator of the function and of the functions it calls is a
\* local created within the call (categories, ranges, hours, days, monthly,
\* the Set and the Map); filter, map, reduce and forEach never assign to their
\* array, and sort is applied to the fresh array of Object.entries
Invocation(data) ==
    [returned |-> calculateStats(data), left |-> data]

RepeatTrades ==
    {a \in ActivityPool : /\ "type" \in DOMAIN a /\ a.type = "TRADE"
                          /\ "conditionId" \in DOMAIN a /\ a.conditionId = "m1"}

RepeatInputs ==
    [activity        : {<<first, second>> : first \in RepeatTrades, second \in RepeatTrades},
     positions       : {<<>>},
     closedPositions : {<<>>, <<ScenarioWin, ScenarioLoss>>}]

InitRepeat ==
    /\ appData \in RepeatInputs
    /\ stats = EmptyObject
    /\ calls = <<>>
    /\ closedPositions = Undefined
    /\ winLossStats = EmptyObject
    /\ trades = <<>>
    /\ monthlyVolume = <<>>
    /\ WalletInitial
    /\ ActivityInitial
    /\ DataInitial
    /\ ChatInitial
    /\ TagsInitial
    /\ pc = "call"

\* const stats = calculateStats(data), remembered with its argument
InvokeCalculateStats ==
    /\ pc = "call"
    /\ Len(calls) < MaxCalls
    /\ LET outcome == Invocation(appData)
       IN  /\ stats' = outcome.returned
           /\ appData' = outcome.left
           /\ calls' = Append(calls, [given    |-> appData,
                                      left     |-> outcome.left,
                                      returned |-> outcome.returned])
    /\ pc' = "done"
    /\ UNCHANGED <<closedPositions, winLossStats, trades, monthlyVolume, walletVars, activityVars, dataVars, chatVars, tagVars>>

\* the next analysis: const data = await fetchAllData(walletAddress)
NextAnalysis ==
    /\ pc = "done"
    /\ Len(calls) < MaxCalls
    /\ appData' \in RepeatInputs
    /\ pc' = "call"
    /\ UNCHANGED <<stats, calls, closedPositions, winLossStats, trades, monthlyVolume, walletVars, activityVars, dataVars, chatVars, tagVars>>

NextRepeat == InvokeCalculateStats \/ NextAnalysis

SpecRepeat == InitRepeat /\ [][NextRepeat]_vars

-----------------------------------------------------------------------------
(* analyzeWallet (app.js) *)

MaxInvocations == 2
MaxOffset == 50

\* the statistics functions are not being studied on their own
StatsIdle ==
    /\ closedPositions = Undefined
    /\ winLossStats = EmptyObject
    /\ trades = <<>>
    /\ monthlyVolume = <<>>
    /\ appData = EmptyObject
    /\ stats = EmptyObject
    /\ calls = <<>>
    /\ pc = "call"

\* String.prototype.trim, for blanks
RECURSIVE TrimStart(_)
TrimStart(s) ==
    IF Len(s) > 0 /\ SubSeq(s, 1, 1) = " " THEN TrimStart(SubSeq(s, 2, Len(s))) ELSE s

RECURSIVE TrimEnd(_)
TrimEnd(s) ==
    IF Len(s) > 0 /\ SubSeq(s, Len(s), Len(s)) = " "
    THEN TrimEnd(SubSeq(s, 1, Len(s) - 1)) ELSE s

Trim(s) == TrimEnd(TrimStart(s))

StartsWith(s, prefix) ==
    Len(s) >= Len(prefix) /\ SubSeq(s, 1, Len(prefix)) = prefix

HexDigits == "0123456789abcdefABCDEF"

\* walletAddress.match(/^0x[a-fA-F0-9]{40}$/)
MatchesAddressFormat(s) ==
    /\ Len(s) = 42
    /\ StartsWith(s, "0x")
    /\ \A i \in 3..42 : \E k \in 1..Len(HexDigits) : SubSeq(HexDigits, k, k) = SubSeq(s, i, i)

\* what the wallet-input field may hold when analyzeWallet is called
WalletInputs ==
    {"", "   ", "vitalik.eth", "0x1234",
     "0x1111111111111111111111111111111111111111", " 0x1111111111111111111111111111111111111111 ",
     "0xAbCdEf0123456789aBcDeF0123456789AbCdEf01",
     "0xZZZZZZZZZZZZZZZZZZZZZZZZZZZZZZZZZZZZZZZZ"}

\* input.value.trim(), tabulated per input
WalletOfInput == [value \in WalletInputs |-> Trim(value)]

\* !walletAddress || !walletAddress.startsWith('0x') is false
PassesFirstCheck == {value \in WalletInputs : StartsWith(WalletOfInput[value], "0x")}

\* the addresses fetchAllData accepts, tabulated
WellFormedAddresses ==
    {WalletOfInput[value] : value \in {v \in WalletInputs : MatchesAddressFormat(WalletOfInput[v])}}

\* what fetchAllData may resolve with for a wallet: the activity endpoint is
\* asked for type=TRADE records
FetchedActivities ==
    {<<>>} \cup {<<trade>> : trade \in RepeatTrades}
           \cup {<<trade>> : trade \in {a \in ActivityPool : "timestamp" \notin DOMAIN a}}

FetchedData(walletAddress) ==
    { [activity |-> activity, positions |-> <<>>, closedPositions |-> <<>>,
       walletAddress |-> walletAddress] : activity \in FetchedActivities }

\* as AfterFetch, with appState.walletAddress assigned before the checks
AfterFetch_AssignsFirst(state, walletAddress, data) ==
    LET early == [state EXCEPT !.walletAddress = Str(walletAddress)]
    IN  IF data.activity = <<>>
        THEN [appState |-> early, outcome |-> "no history"]
        ELSE LET result == calculateStats(data)
             IN  IF "threw" \in DOMAIN result
                 THEN [appState |-> early, outcome |-> "stats threw"]
                 ELSE [appState |-> [early EXCEPT !.data = data, !.stats = result,
                                                  !.currentTradeOffset = 0],
                       outcome  |-> "analysed"]

\* as AfterFetch, without appState.currentTradeOffset = 0
AfterFetch_KeepsOffset(state, walletAddress, data) ==
    IF data.activity = <<>>
    THEN [appState |-> state, outcome |-> "no history"]
    ELSE LET result == calculateStats(data)
         IN  IF "threw" \in DOMAIN result
             THEN [appState |-> state, outcome |-> "stats threw"]
             ELSE [appState |-> [state EXCEPT !.walletAddress = Str(walletAddress),
                                              !.data = data, !.stats = result],
                   outcome  |-> "analysed"]

\* the try block from the point where fetchAllData has resolved with data:
\* the empty-activity check, calculateStats and the four assignments; an
\* exception leaves through the catch block, which does not touch appState
AfterFetch(state, walletAddress, data) ==
    IF data.activity = <<>>
    THEN [appState |-> state, outcome |-> "no history"]
    ELSE LET result == calculateStats(data)
         IN  IF "threw" \in DOMAIN result
             THEN [appState |-> state, outcome |-> "stats threw"]
             ELSE [appState |-> [state EXCEPT !.walletAddress = Str(walletAddress),
                                              !.data = data, !.stats = result,
                                              !.currentTradeOffset = 0],
                   outcome  |-> "analysed"]

InitWallet ==
    /\ WalletInitial
    /\ ActivityInitial
    /\ DataInitial
    /\ ChatInitial
    /\ TagsInitial
    /\ StatsIdle

\* analyzeWallet up to its await: the address check, then fetchAllData is
\* called and the invocation waits for it
StartAnalyzeWallet(value) ==
    /\ Len(invocations) < MaxInvocations
    /\ invocations' = Append(invocations,
           IF value \in PassesFirstCheck
           THEN [walletAddress |-> WalletOfInput[value], pc |-> "awaiting",
                 outcome |-> "", data |-> Null]
           ELSE [walletAddress |-> WalletOfInput[value], pc |-> "returned",
                 outcome |-> "invalid address", data |-> Null])
    /\ UNCHANGED <<appState, statsVars, activityVars, dataVars, chatVars, tagVars>>

\* fetchAllData rejects: the address is not 0x and 40 hex digits, or the
\* activity or positions request failed
FetchAllDataRejects(id) ==
    /\ invocations[id].pc = "awaiting"
    /\ invocations' = [invocations EXCEPT ![id].pc = "returned",
                                          ![id].outcome = "fetch failed"]
    /\ UNCHANGED <<appState, statsVars, activityVars, dataVars, chatVars, tagVars>>

\* fetchAllData resolves and the invocation runs to its end
FetchAllDataResolves(id, data) ==
    /\ invocations[id].pc = "awaiting"
    /\ invocations[id].walletAddress \in WellFormedAddresses
    /\ data \in FetchedData(invocations[id].walletAddress)
    /\ LET after == AfterFetch(appState, invocations[id].walletAddress, data)
       IN  /\ appState' = after.appState
           /\ invocations' = [invocations EXCEPT ![id].pc = "returned",
                                                 ![id].outcome = after.outcome,
                                                 ![id].data = data]
    /\ UNCHANGED <<statsVars, activityVars, dataVars, chatVars, tagVars>>

\* loadMoreTrades
LoadMoreTrades ==
    /\ appState.data # Null
    /\ appState.currentTradeOffset < MaxOffset
    /\ appState' = [appState EXCEPT !.currentTradeOffset = @ + appState.tradesPerPage]
    /\ UNCHANGED <<invocations, statsVars, activityVars, dataVars, chatVars, tagVars>>

NextWallet ==
    \/ \E value \in WalletInputs : StartAnalyzeWallet(value)
    \/ \E id \in DOMAIN invocations : FetchAllDataRejects(id)
    \/ \E id \in DOMAIN invocations :
          \E data \in FetchedData(invocations[id].walletAddress) : FetchAllDataResolves(id, data)
    \/ LoadMoreTrades

SpecWallet == InitWallet /\ [][NextWallet]_vars

-----------------------------------------------------------------------------
(* Properties of analyzeWallet, checked under SpecWallet *)

Cached == <<appState.walletAddress, appState.data, appState.stats>>

\* walletAddress, data and stats are all null, or all three are those of one
\* invocation that ran to its end, with stats computed from data
AppStateConsistent ==
    \/ /\ appState.walletAddress = Null
       /\ appState.data = Null
       /\ appState.stats = Null
    \/ /\ appState.walletAddress # Null
       /\ appState.data # Null
       /\ appState.stats # Null
       /\ \E id \in DOMAIN invocations :
             /\ invocations[id].outcome = "analysed"
             /\ appState.walletAddress = Str(invocations[id].walletAddress)
             /\ appState.data = invocations[id].data
             /\ appState.data.walletAddress = invocations[id].walletAddress
       /\ appState.stats = calculateStats(appState.data)

\* the invocations that return in this step
Returning ==
    {id \in DOMAIN invocations' :
        /\ invocations'[id].pc = "returned"
        /\ id \in DOMAIN invocations => invocations[id].pc # "returned"}

\* an invocation that returns without an analysis leaves the three cached
\* fields as they were; one that returns with an analysis caches its own
\* wallet and data and puts currentTradeOffset to 0
AttemptEffect ==
    \A id \in Returning :
        IF invocations'[id].outcome = "analysed"
        THEN /\ appState'.walletAddress = Str(invocations'[id].walletAddress)
             /\ appState'.data = invocations'[id].data
             /\ appState'.currentTradeOffset = 0
        ELSE Cached' = Cached

\* C21: in every state appState.walletAddress, appState.data and
\* appState.stats are all null or all belong to one successful analysis, with
\* stats = calculateStats(data); a successful analysis puts
\* currentTradeOffset to 0, and a failed attempt (invalid address, fetch
\* error, empty activity) leaves the three fields unchanged.
C21_AppStateConsistent ==
    []AppStateConsistent /\ [][AttemptEffect]_vars

C21_Witness ==
    /\ Len(invocations) = 2
    /\ invocations[1].outcome = "analysed"
    /\ invocations[2].outcome = "no history"
    /\ invocations[2].walletAddress # invocations[1].walletAddress
    /\ appState.walletAddress = Str(invocations[1].walletAddress)
    /\ appState.currentTradeOffset = 25

\* the second invocation was started while the first was awaiting fetchAllData
Overlapping ==
    Len(invocations) >= 2 /\ invocations[1].pc = "awaiting"

\* exactly two invocations were started and both ran to their end
BothAnalysed ==
    /\ Len(invocations) = 2
    /\ \A id \in 1..2 : invocations[id].pc = "returned" /\ invocations[id].outcome = "analysed"

\* the three cached fields belong to the wallet of this invocation
CachedIsOf(id) ==
    /\ appState.walletAddress = Str(invocations[id].walletAddress)
    /\ appState.data # Null
    /\ appState.data.walletAddress = invocations[id].walletAddress
    /\ appState.stats = calculateStats(appState.data)

\* C29: when the second analyzeWallet is started while the first awaits
\* fetchAllData, then once both have completed successfully appState holds
\* the wallet, data and stats of the second, the invocation started last.
\* The first is still awaiting when the other completes it: a step from such
\* a state to one in which both have completed successfully leaves the
\* wallet, data and stats of the second.  (When the first completes before
\* the second, the assignments of the second are the last to run.)
C29_LastStartedWins ==
    [][(Overlapping /\ BothAnalysed') => CachedIsOf(2)']_vars

-----------------------------------------------------------------------------
(* fetchAllActivity and fetchActivity (journal.js) *)

MaxRequests == 23
MaxIrregular == 1

\* a JS number that is a whole number
Number(k) == [n |-> k, d |-> 1]

\* x + y where either may be NaN, and y may be undefined
Plus(x, y) ==
    IF x = NaN \/ y = NaN \/ y = Undefined THEN NaN ELSE Number(x.n + y.n)

\* x >= k and x < k; a comparison with NaN or undefined is false
AtLeast(x, k) == x # NaN /\ x # Undefined /\ x.n >= k

LessThan(x, k) == x # NaN /\ x # Undefined /\ x.n < k

\* the bodies response.json() may give: an array of so many records, or a
\* JSON object such as {error: ...}
ArrayOf(count) == [array |-> TRUE, count |-> count]

JsonObject == [array |-> FALSE]

\* batch.length
Length(batch) == IF batch.array THEN Number(batch.count) ELSE Undefined

\* the number of elements batch adds in allActivity.concat(batch): concat
\* spreads an array and appends anything else as one element
Spread(batch) == IF batch.array THEN batch.count ELSE 1

RECURSIVE ElementsOf(_)
ElementsOf(batches) ==
    IF batches = <<>> THEN 0 ELSE Spread(Head(batches)) + ElementsOf(Tail(batches))

\* what the activity endpoint may answer to one request: a failure (network
\* error or a status that is not OK) or a JSON body
BatchSizes == {0, 1, 499, 500, 10001}

ActivityResponses ==
    {[ok |-> FALSE]} \cup {[ok |-> TRUE, body |-> ArrayOf(count)] : count \in BatchSizes}
                     \cup {[ok |-> TRUE, body |-> JsonObject]}

\* a body that is not an array of at most 500 records, the limit asked for
Irregular(batch) == ~batch.array \/ batch.count > 500

IrregularAmong(batches) == Cardinality({i \in DOMAIN batches : Irregular(batches[i])})

\* as LoopBody, with the 10,000 check made on the batch length
LoopBody_ChecksBatchLength(state, batch) ==
    IF Length(batch) = Zero
    THEN [state EXCEPT !.hasMore = FALSE]
    ELSE LET next == Plus(state.offset, Length(batch))
         IN  [allActivity |-> Append(state.allActivity, batch),
              offset      |-> next,
              hasMore     |-> IF AtLeast(Length(batch), 10000) \/ LessThan(Length(batch), 500)
                              THEN FALSE ELSE state.hasMore]

\* one turn of the while loop once fetchActivity has resolved with batch
LoopBody(state, batch) ==
    IF Length(batch) = Zero
    THEN [state EXCEPT !.hasMore = FALSE]
    ELSE LET next == Plus(state.offset, Length(batch))
         IN  [allActivity |-> Append(state.allActivity, batch),
              offset      |-> next,
              hasMore     |-> IF AtLeast(next, 10000) \/ LessThan(Length(batch), 500)
                              THEN FALSE ELSE state.hasMore]

\* fetchAllActivity is called: the locals are set and the first request goes out
InitActivity ==
    /\ allActivity = <<>>
    /\ offset = Zero
    /\ hasMore = TRUE
    /\ requests = 1
    /\ activityPc = "fetching"
    /\ WalletInitial
    /\ DataInitial
    /\ ChatInitial
    /\ TagsInitial
    /\ StatsIdle

\* fetchActivity throws (network error or !response.ok): the await rethrows
\* and fetchAllActivity rejects
ActivityRequestFails ==
    /\ activityPc = "fetching"
    /\ activityPc' = "rejected"
    /\ UNCHANGED <<allActivity, offset, hasMore, requests, statsVars, walletVars, dataVars, chatVars, tagVars>>

\* fetchActivity resolves with a batch: the loop body runs, then either the
\* next request goes out or allActivity is returned
ActivityRequestResolves(batch) ==
    /\ activityPc = "fetching"
    /\ requests <= MaxRequests
    /\ Irregular(batch) => IrregularAmong(allActivity) < MaxIrregular
    /\ LET after == LoopBody([allActivity |-> allActivity, offset |-> offset,
                              hasMore |-> hasMore], batch)
       IN  /\ allActivity' = after.allActivity
           /\ offset' = after.offset
           /\ hasMore' = after.hasMore
           /\ requests' = IF after.hasMore THEN requests + 1 ELSE requests
           /\ activityPc' = IF after.hasMore THEN "fetching" ELSE "returned"
    /\ UNCHANGED <<statsVars, walletVars, dataVars, chatVars, tagVars>>

NextActivity ==
    \/ ActivityRequestFails
    \/ \E response \in {r \in ActivityResponses : r.ok} : ActivityRequestResolves(response.body)

SpecActivity == InitActivity /\ [][NextActivity]_vars

-----------------------------------------------------------------------------
(* Properties of fetchAllActivity, checked under SpecActivity *)

\* the requests answered so far with a full batch of 500 records
FullBatches == Cardinality({i \in DOMAIN allActivity : Length(allActivity[i]) = Number(500)})

\* no answer held more records than the 500 asked for
LimitHonoured == \A i \in DOMAIN allActivity : allActivity[i].array => allActivity[i].count <= 500

\* C22: fetchAllActivity stops as soon as a batch is empty, has fewer than
\* 500 records or the accumulated offset reaches 10,000: while it is still
\* fetching fewer than 10,000 records are accumulated, at most 20 requests
\* return a full batch, and when every answer honours the 500-record limit
\* at most 10,000 records are returned.
C22_StopsWithinTwentyFullBatches ==
    /\ activityPc = "fetching" => ElementsOf(allActivity) < 10000
    /\ FullBatches <= 20
    /\ (activityPc = "returned" /\ LimitHonoured) => ElementsOf(allActivity) <= 10000

-----------------------------------------------------------------------------
(* fetchClosedPositions and fetchAllData (journal.js) *)

MaxPages == 4

\* a JSON body that is null
JsonNull == [array |-> FALSE, null |-> TRUE]

\* what the closed-positions endpoint may answer to one request
ClosedPageSizes == {0, 7, 50, 10000}

ClosedResponses ==
    {[kind |-> "network error"], [kind |-> "parse error"]}
        \cup {[kind |-> "status", status |-> status] : status \in {404, 500}}
        \cup {[kind |-> "body", body |-> ArrayOf(count)] : count \in ClosedPageSizes}
        \cup {[kind |-> "body", body |-> body] : body \in {JsonObject, JsonNull}}

\* the records of a page are those of the request that fetched it
PageOf(response, page) ==
    IF response.kind = "body" /\ response.body.array
    THEN [response EXCEPT !.body = response.body @@ [page |-> page]]
    ELSE response

\* as ClosedTurn, with the catch block throwing the error again
ClosedTurn_Rethrows(state, response) ==
    IF response.kind = "status" /\ response.status = 404
    THEN [state EXCEPT !.pc = "resolved"]
    ELSE IF response.kind # "body" \/ response.body = JsonNull
    THEN [state EXCEPT !.pc = "rejected"]
    ELSE LET data == response.body
         IN  IF Length(data) = Zero
             THEN [state EXCEPT !.hasMore = FALSE, !.pc = "resolved"]
             ELSE LET next == Plus(state.offset, Length(data))
                      more == ~(AtLeast(next, 10000) \/ LessThan(Length(data), 50))
                  IN  [allClosed |-> Append(state.allClosed, data),
                       offset    |-> next,
                       hasMore   |-> more,
                       pc        |-> IF more THEN "fetching" ELSE "resolved"]

\* as ClosedTurn, with the catch block returning an empty array
ClosedTurn_ForgetsPages(state, response) ==
    IF response.kind = "status" /\ response.status = 404
    THEN [state EXCEPT !.pc = "resolved"]
    ELSE IF response.kind # "body" \/ response.body = JsonNull
    THEN [state EXCEPT !.pc = "resolved", !.allClosed = <<>>]
    ELSE LET data == response.body
         IN  IF Length(data) = Zero
             THEN [state EXCEPT !.hasMore = FALSE, !.pc = "resolved"]
             ELSE LET next == Plus(state.offset, Length(data))
                      more == ~(AtLeast(next, 10000) \/ LessThan(Length(data), 50))
                  IN  [allClosed |-> Append(state.allClosed, data),
                       offset    |-> next,
                       hasMore   |-> more,
                       pc        |-> IF more THEN "fetching" ELSE "resolved"]

\* one turn of the while loop of fetchClosedPositions from the answer to its
\* request: a 404 returns allClosed; any other status, a network error, a
\* body that does not parse and a null body (data.length throws) end in the
\* catch block, which returns allClosed; otherwise the loop body runs
ClosedTurn(state, response) ==
    IF response.kind = "status" /\ response.status = 404
    THEN [state EXCEPT !.pc = "resolved"]
    ELSE IF response.kind # "body" \/ response.body = JsonNull
    THEN [state EXCEPT !.pc = "resolved"]
    ELSE LET data == response.body
         IN  IF Length(data) = Zero
             THEN [state EXCEPT !.hasMore = FALSE, !.pc = "resolved"]
             ELSE LET next == Plus(state.offset, Length(data))
                      more == ~(AtLeast(next, 10000) \/ LessThan(Length(data), 50))
                  IN  [allClosed |-> Append(state.allClosed, data),
                       offset    |-> next,
                       hasMore   |-> more,
                       pc        |-> IF more THEN "fetching" ELSE "resolved"]

\* Promise.all over the three promises: rejected as soon as one is rejected,
\* resolved once all three are resolved
PromiseAll(activity, positions, closed) ==
    IF "rejected" \in {activity, positions, closed} THEN "rejected"
    ELSE IF {activity, positions, closed} = {"resolved"} THEN "resolved"
    ELSE "pending"

\* fetchAllData is called with a well-formed address: the three fetches start
InitData ==
    /\ allClosed = <<>>
    /\ closedOffset = Zero
    /\ closedHasMore = TRUE
    /\ closedResponses = <<>>
    /\ closedPc = "fetching"
    /\ fetches = [activity |-> "pending", positions |-> "pending"]
    /\ allData = "pending"
    /\ WalletInitial
    /\ ActivityInitial
    /\ ChatInitial
    /\ TagsInitial
    /\ StatsIdle

\* the closed-positions endpoint answers the request in flight
ClosedRequestAnswered(response) ==
    /\ closedPc = "fetching"
    /\ Len(closedResponses) < MaxPages
    /\ LET answer == PageOf(response, Len(closedResponses) + 1)
           after  == ClosedTurn([allClosed |-> allClosed, offset |-> closedOffset,
                                 hasMore |-> closedHasMore, pc |-> closedPc], answer)
       IN  /\ allClosed' = after.allClosed
           /\ closedOffset' = after.offset
           /\ closedHasMore' = after.hasMore
           /\ closedPc' = after.pc
           /\ closedResponses' = Append(closedResponses, answer)
           /\ allData' = PromiseAll(fetches.activity, fetches.positions, after.pc)
    /\ UNCHANGED <<fetches, statsVars, walletVars, activityVars, chatVars, tagVars>>

\* fetchAllActivity or fetchPositions settles
FetchSettles(name, outcome) ==
    /\ fetches[name] = "pending"
    /\ fetches' = [fetches EXCEPT ![name] = outcome]
    /\ allData' = PromiseAll(fetches'.activity, fetches'.positions, closedPc)
    /\ UNCHANGED <<allClosed, closedOffset, closedHasMore, closedResponses, closedPc, tagVars>>
    /\ UNCHANGED <<statsVars, walletVars, activityVars, chatVars, tagVars>>

NextData ==
    \/ \E response \in ClosedResponses : ClosedRequestAnswered(response)
    \/ \E name \in {"activity", "positions"}, outcome \in {"resolved", "rejected"} :
          FetchSettles(name, outcome)

SpecData == InitData /\ [][NextData]_vars

-----------------------------------------------------------------------------
(* Properties of fetchClosedPositions and fetchAllData, checked under SpecData *)

\* an answer that carries records: a parsed body that is not null and not
\* an empty array
CarriesRecords(response) ==
    /\ response.kind = "body"
    /\ response.body # JsonNull
    /\ Length(response.body) # Zero

\* the bodies of the answers that carried records, in the order of the pages
RECURSIVE PagesBefore(_)
PagesBefore(responses) ==
    IF responses = <<>> THEN <<>>
    ELSE LET rest == PagesBefore(SubSeq(responses, 1, Len(responses) - 1))
             last == responses[Len(responses)]
         IN  IF CarriesRecords(last) THEN Append(rest, last.body) ELSE rest

\* the last answer was a failure: a status that is not OK, a network error
\* or a body that cannot be parsed or used
EndedInFailure ==
    /\ closedResponses # <<>>
    /\ LET last == closedResponses[Len(closedResponses)]
       IN  last.kind # "body" \/ last.body = JsonNull

\* C23: fetchClosedPositions never rejects; whenever it resolves, and so
\* after a 404, another status that is not OK, a network error or a parse
\* error on any page, its value is exactly the pages fetched before, in page
\* order; and fetchAllData (called with a well-formed address) is rejected
\* only when fetchAllActivity or fetchPositions is.
C23_ClosedPositionsNeverRejects ==
    /\ closedPc # "rejected"
    /\ closedPc = "resolved" => allClosed = PagesBefore(closedResponses)
    /\ EndedInFailure => closedPc = "resolved"
    /\ allData = "rejected" => "rejected" \in {fetches.activity, fetches.positions}

C23_Witness ==
    /\ closedPc = "resolved"
    /\ Len(closedResponses) = 3
    /\ closedResponses[3] = [kind |-> "status", status |-> 500]
    /\ Len(allClosed) = 2
    /\ \A page \in 1..2 : allClosed[page].array /\ allClosed[page].page = page
    /\ allData = "resolved"

-----------------------------------------------------------------------------
(* The chat: sendChatMessage and clearChat (part_000), and the relay
   app.post('/api/chat') of the server *)

MaxChatRequests == 2

\* what the chat-input field may hold when sendChatMessage is called
ChatInputs == {"", " hi ", "why"}

MessageOfInput == [value \in ChatInputs |-> Trim(value)]

\* the texts the model may answer with
ReplyTexts == {"ok", "hi"}

Entry(role, content) == [role |-> role, content |-> content]

\* chatHistory.slice(-6)
LastSix(history) ==
    IF Len(history) <= 6 THEN history ELSE SubSeq(history, Len(history) - 5, Len(history))

\* an earlier conversation of three questions and three answers
EarlierConversation ==
    <<Entry("user", "why"), Entry("assistant", "ok"), Entry("user", "hi"),
      Entry("assistant", "ok"), Entry("user", "why"), Entry("assistant", "hi")>>

\* a page on which a wallet has been analysed
AnalysedInvocation ==
    LET walletAddress == CHOOSE w \in WellFormedAddresses : TRUE
        data == CHOOSE d \in FetchedData(walletAddress) :
                    Len(d.activity) = 1 /\ "timestamp" \in DOMAIN d.activity[1]
    IN  [walletAddress |-> walletAddress, pc |-> "returned", outcome |-> "analysed",
         data |-> data]

\* the stats another client may put into its request: what the page holds,
\* some other object, or none
OtherStats == {appState.stats, [totalTrades |-> 0], Null}

\* requests another client may post to the relay
OtherHistories ==
    {Undefined,
     Array(<<Entry("assistant", "hi")>>),
     Array(<<Entry("user", "hi"), Entry("assistant", "ok")>>),
     Array(<<Entry("system", "ok"), Entry("user", "why")>>)}

OtherBodies ==
    {[message |-> message, stats |-> bodyStats, history |-> history] :
        message \in {"hi"}, bodyStats \in OtherStats \ {Null}, history \in OtherHistories}
    \cup {[message |-> "", stats |-> [totalTrades |-> 0], history |-> Undefined],
          [message |-> "hi", stats |-> Null, history |-> Undefined]}

\* as RelayMessages, with the current message always added
RelayMessages_AlwaysAdds(body) ==
    LET given == IF body.history.defined THEN body.history.value ELSE <<>>
        copied == [i \in DOMAIN given |->
                      Entry(IF given[i].role = "user" THEN "user" ELSE "assistant",
                            given[i].content)]
    IN  Append(copied, Entry("user", body.message))

\* the messages array the relay builds: the history with every role that is
\* not 'user' turned into 'assistant', then the current message unless the
\* content of the last history entry equals it
RelayMessages(body) ==
    LET given == IF body.history.defined THEN body.history.value ELSE <<>>
        copied == [i \in DOMAIN given |->
                      Entry(IF given[i].role = "user" THEN "user" ELSE "assistant",
                            given[i].content)]
    IN  IF given = <<>> \/ given[Len(given)].content # body.message
        THEN Append(copied, Entry("user", body.message))
        ELSE copied

\* the requests of the earlier conversation, each answered
EarlierRequests(pageStats) ==
    [k \in 1..3 |->
        LET body == [message |-> EarlierConversation[2 * k - 1].content,
                     stats   |-> pageStats,
                     history |-> Array(LastSix(SubSeq(EarlierConversation, 1, 2 * k - 1)))]
        IN  [origin |-> "page", state |-> "answered", messages |-> RelayMessages(body),
             response |-> EarlierConversation[2 * k].content, body |-> body]]

\* the requests made since the page was found in its initial state
NewRequests ==
    IF Len(chatRequests) >= 3 /\ SubSeq(chatRequests, 1, 3) = EarlierRequests(appState.stats)
    THEN Len(chatRequests) - 3 ELSE Len(chatRequests)

\* a fresh page, a page with a wallet analysed, or such a page after an
\* earlier conversation
InitChat ==
    /\ \/ appState = InitialAppState /\ invocations = <<>>
          /\ chatHistory = <<>> /\ chatRequests = <<>>
       \/ /\ invocations = <<AnalysedInvocation>>
          /\ appState = AfterFetch(InitialAppState, invocations[1].walletAddress,
                                   invocations[1].data).appState
          /\ \/ chatHistory = <<>> /\ chatRequests = <<>>
             \/ /\ chatHistory = EarlierConversation
                /\ chatRequests = EarlierRequests(appState.stats)
    /\ ActivityInitial
    /\ DataInitial
    /\ TagsInitial
    /\ StatsIdle

\* as SendChatMessage, with the whole chatHistory sent
SendChatMessage_SendsAll(value) ==
    LET message == MessageOfInput[value]
    IN  /\ NewRequests < MaxChatRequests
        /\ IF message = "" \/ appState.stats = Null
           THEN UNCHANGED <<chatHistory, chatRequests, tagVars>>
           ELSE /\ chatHistory' = Append(chatHistory, Entry("user", message))
                /\ chatRequests' = Append(chatRequests,
                       [origin |-> "page", state |-> "sent", messages |-> <<>>, response |-> "",
                        body |-> [message |-> message, stats |-> appState.stats,
                                  history |-> Array(chatHistory')]])
        /\ UNCHANGED <<statsVars, walletVars, activityVars, dataVars, tagVars>>

\* sendChatMessage up to its await: the two early returns, then the message
\* is pushed to chatHistory and the request goes out with the last six entries
SendChatMessage(value) ==
    LET message == MessageOfInput[value]
    IN  /\ NewRequests < MaxChatRequests
        /\ IF message = "" \/ appState.stats = Null
           THEN UNCHANGED <<chatHistory, chatRequests, tagVars>>
           ELSE /\ chatHistory' = Append(chatHistory, Entry("user", message))
                /\ chatRequests' = Append(chatRequests,
                       [origin |-> "page", state |-> "sent", messages |-> <<>>, response |-> "",
                        body |-> [message |-> message, stats |-> appState.stats,
                                  history |-> Array(LastSix(chatHistory'))]])
        /\ UNCHANGED <<statsVars, walletVars, activityVars, dataVars, tagVars>>

\* another client posts to /api/chat
PostChat(body) ==
    /\ NewRequests < MaxChatRequests
    /\ chatRequests' = Append(chatRequests,
           [origin |-> "other", state |-> "sent", messages |-> <<>>, response |-> "",
            body |-> body])
    /\ UNCHANGED <<chatHistory, statsVars, walletVars, activityVars, dataVars, tagVars>>

\* the relay answers 400 (message or stats missing) or 500 (no API key), or
\* the request does not get through
RelayRefuses(id) ==
    /\ chatRequests[id].state = "sent"
    /\ chatRequests' = [chatRequests EXCEPT ![id].state = "failed"]
    /\ UNCHANGED <<chatHistory, statsVars, walletVars, activityVars, dataVars, tagVars>>

\* the relay builds the messages array and posts it to the model
RelayForwards(id) ==
    /\ chatRequests[id].state = "sent"
    /\ chatRequests[id].body.message # ""
    /\ chatRequests[id].body.stats # Null
    /\ chatRequests' = [chatRequests EXCEPT ![id].state = "forwarded",
                                            ![id].messages = RelayMessages(chatRequests[id].body)]
    /\ UNCHANGED <<chatHistory, statsVars, walletVars, activityVars, dataVars, tagVars>>

\* the model answers, the relay passes the text on, and the page that sent
\* the request pushes it to chatHistory
ModelAnswers(id, text) ==
    /\ chatRequests[id].state = "forwarded"
    /\ chatRequests' = [chatRequests EXCEPT ![id].state = "answered",
                                            ![id].response = text]
    /\ chatHistory' = IF chatRequests[id].origin = "page"
                      THEN Append(chatHistory, Entry("assistant", text))
                      ELSE chatHistory
    /\ UNCHANGED <<statsVars, walletVars, activityVars, dataVars, tagVars>>

\* the model or the relay fails: the catch block of sendChatMessage shows an
\* apology and leaves chatHistory alone
ModelFails(id) ==
    /\ chatRequests[id].state = "forwarded"
    /\ chatRequests' = [chatRequests EXCEPT ![id].state = "failed"]
    /\ UNCHANGED <<chatHistory, statsVars, walletVars, activityVars, dataVars, tagVars>>

\* clearChat
ClearChat ==
    /\ chatHistory' = <<>>
    /\ UNCHANGED <<chatRequests, statsVars, walletVars, activityVars, dataVars, tagVars>>

NextChat ==
    \/ \E value \in ChatInputs : SendChatMessage(value)
    \/ \E body \in OtherBodies : PostChat(body)
    \/ \E id \in DOMAIN chatRequests : RelayRefuses(id)
    \/ \E id \in DOMAIN chatRequests : RelayForwards(id)
    \/ \E id \in DOMAIN chatRequests, text \in ReplyTexts : ModelAnswers(id, text)
    \/ \E id \in DOMAIN chatRequests : ModelFails(id)
    \/ ClearChat

SpecChat == InitChat /\ [][NextChat]_vars

-----------------------------------------------------------------------------
(* Properties of the chat, checked under SpecChat *)

HistoryOf(body) == IF body.history.defined THEN body.history.value ELSE <<>>

\* the request carries at most six history entries, the last of which is the
\* message of the request, as a user entry
SentByPage(request) ==
    LET history == HistoryOf(request.body)
    IN  /\ request.body.history.defined
        /\ Len(history) \in 1..6
        /\ history[Len(history)] = Entry("user", request.body.message)

\* the history as the relay is to forward it: roles are user or assistant
Normalised(history) ==
    [i \in DOMAIN history |->
        Entry(IF history[i].role = "user" THEN "user" ELSE "assistant", history[i].content)]

\* the forwarded list is the history followed by the current message as a user
\* entry, the current message not being repeated when the history already
\* ends with it
ForwardedOnce(request) ==
    LET history == Normalised(HistoryOf(request.body))
        current == Entry("user", request.body.message)
    IN  /\ request.messages # <<>>
        /\ request.messages[Len(request.messages)] = current
        /\ request.messages =
               IF history # <<>> /\ history[Len(history)] = current
               THEN history ELSE Append(history, current)

\* C24: every request of the page carries at most the last 6 entries of
\* chatHistory, ending with the current user message; and for any history a
\* request carries, the list the relay forwards to the model holds the
\* current message exactly once, as its last element with role user.
C24_CurrentMessageLastAndOnce ==
    \A id \in DOMAIN chatRequests :
        /\ chatRequests[id].origin = "page" => SentByPage(chatRequests[id])
        /\ chatRequests[id].state \in {"forwarded", "answered"} => ForwardedOnce(chatRequests[id])

\* the roles alternate user, assistant, user, ... from the first entry
Alternates(history) ==
    \A i \in DOMAIN history :
        history[i].role = IF i % 2 = 1 THEN "user" ELSE "assistant"

\* every assistant entry is the answer to a request whose message is the
\* user entry just before it
RepliesFollowQuestions(history) ==
    \A i \in DOMAIN history :
        history[i].role = "assistant" =>
            /\ i > 1
            /\ history[i - 1].role = "user"
            /\ \E id \in DOMAIN chatRequests :
                  /\ chatRequests[id].origin = "page"
                  /\ chatRequests[id].state = "answered"
                  /\ chatRequests[id].response = history[i].content
                  /\ chatRequests[id].body.message = history[i - 1].content

\* C30: in every reachable state of the chat, chatHistory alternates roles
\* user, assistant, user, ... starting with user, and each assistant entry
\* is the reply to the user entry immediately before it.
C30_ChatHistoryAlternates ==
    Alternates(chatHistory) /\ RepliesFollowQuestions(chatHistory)

-----------------------------------------------------------------------------
(* Custom tags of the journal: src/js/journal.js 380-461.  The list lives   *)
(* in localStorage under CUSTOM_TAGS_KEY as the JSON text of an array of    *)
(* {emoji, name} objects; the only writer is saveCustomTag.                 *)

\* const defaultTags = { confident: ..., uncertain: ..., fomo: ...,
\* research: ..., gut: ... } (380-386): the display text of each key
defaultTags ==
    [confident |-> "Confident", uncertain |-> "Uncertain", fomo |-> "FOMO",
     research |-> "Researched", gut |-> "Gut Feel"]

\* the properties every object literal inherits from Object.prototype;
\* defaultTags[name] finds them too, and each of them is truthy
ObjectPrototypeKeys ==
    {"constructor", "__proto__", "toString", "valueOf", "toLocaleString",
     "hasOwnProperty", "isPrototypeOf", "propertyIsEnumerable",
     "__defineGetter__", "__defineSetter__", "__lookupGetter__",
     "__lookupSetter__"}

\* defaultTags[name] as a condition (line 450): every display text is a
\* non-empty string
DefaultTagsHas(name) ==
    name \in DOMAIN defaultTags \/ name \in ObjectPrototypeKeys

\* JSON.stringify(custom) (456): the stored text, kept as the array it
\* spells; arrays of objects with two string fields survive the round trip
Stringify(custom) == [json |-> custom]

\* getCustomTags (388-392): JSON.parse(getItem(KEY) || '[]')
getCustomTags(item) == IF item = Null THEN <<>> ELSE item.json

\* what the user may have typed into the two fields
EmojiValues == {"", " ", "*", " + "}
NameValues == {"", " ", "Gut", " calm", "Calm ", "zen", "bold", "risk", "constructor"}

\* value.trim() of the emoji field (436)
EmojiOfValue == [value \in EmojiValues |-> Trim(value)]

\* value.trim().toLowerCase() of the name field (437)
NameOfValue == [value \in NameValues |-> ToLowerCase(Trim(value))]

saveCustomTag_SkipsDefaults(item, emojiValue, nameValue) ==
    LET emoji == EmojiOfValue[emojiValue]
        name == NameOfValue[nameValue]
        custom == getCustomTags(item)
    IN  IF emoji = "" \/ name = ""
        THEN [item |-> item, toast |-> "Fill in both fields", closes |-> FALSE]
        ELSE IF Len(custom) >= 3
        THEN [item |-> item, toast |-> "Max 3 custom tags", closes |-> FALSE]
        ELSE IF \E k \in 1..Len(custom) : custom[k].name = name
        THEN [item |-> item, toast |-> "Tag already exists", closes |-> FALSE]
        ELSE [item |-> Stringify(Append(custom, [emoji |-> emoji, name |-> name])),
              toast |-> "Tag added", closes |-> TRUE]

saveCustomTag_SkipsLimit(item, emojiValue, nameValue) ==
    LET emoji == EmojiOfValue[emojiValue]
        name == NameOfValue[nameValue]
        custom == getCustomTags(item)
    IN  IF emoji = "" \/ name = ""
        THEN [item |-> item, toast |-> "Fill in both fields", closes |-> FALSE]
        ELSE IF (\E k \in 1..Len(custom) : custom[k].name = name)
                \/ DefaultTagsHas(name)
        THEN [item |-> item, toast |-> "Tag already exists", closes |-> FALSE]
        ELSE [item |-> Stringify(Append(custom, [emoji |-> emoji, name |-> name])),
              toast |-> "Tag added", closes |-> TRUE]

\* saveCustomTag (435-461) on the stored item and the two field values:
\* the item it leaves, the toast it shows, whether it closes the modal
saveCustomTag(item, emojiValue, nameValue) ==
    LET emoji == EmojiOfValue[emojiValue]
        name == NameOfValue[nameValue]
        custom == getCustomTags(item)
    IN  IF emoji = "" \/ name = ""
        THEN [item |-> item, toast |-> "Fill in both fields", closes |-> FALSE]
        ELSE IF Len(custom) >= 3
        THEN [item |-> item, toast |-> "Max 3 custom tags", closes |-> FALSE]
        ELSE IF (\E k \in 1..Len(custom) : custom[k].name = name)
                \/ DefaultTagsHas(name)
        THEN [item |-> item, toast |-> "Tag already exists", closes |-> FALSE]
        ELSE [item |-> Stringify(Append(custom, [emoji |-> emoji, name |-> name])),
              toast |-> "Tag added", closes |-> TRUE]

InitTags ==
    /\ TagsInitial
    /\ WalletInitial
    /\ ActivityInitial
    /\ DataInitial
    /\ ChatInitial
    /\ StatsIdle

\* openCustomTagModal (420-427)
OpenCustomTagModal ==
    /\ tagCall' = [fn |-> "openCustomTagModal"]
    /\ IF Len(getCustomTags(customTagsItem)) >= 3
       THEN tagToast' = "Max 3 custom tags" /\ UNCHANGED <<tagModal>>
       ELSE tagModal' = "shown" /\ UNCHANGED <<tagToast>>
    /\ UNCHANGED <<customTagsItem>>
    /\ UNCHANGED <<statsVars, walletVars, activityVars, dataVars, chatVars>>

\* closeCustomTagModal (429-433)
CloseCustomTagModal ==
    /\ tagCall' = [fn |-> "closeCustomTagModal"]
    /\ tagModal' = "hidden"
    /\ UNCHANGED <<customTagsItem, tagToast>>
    /\ UNCHANGED <<statsVars, walletVars, activityVars, dataVars, chatVars>>

\* one call of saveCustomTag with the two fields holding these values
CallSaveCustomTag(emojiValue, nameValue) ==
    LET result == saveCustomTag(customTagsItem, emojiValue, nameValue)
    IN  /\ tagCall' = [fn |-> "saveCustomTag", emoji |-> emojiValue, name |-> nameValue]
        /\ customTagsItem' = result.item
        /\ tagToast' = result.toast
        /\ tagModal' = IF result.closes THEN "hidden" ELSE tagModal
        /\ UNCHANGED <<statsVars, walletVars, activityVars, dataVars, chatVars>>

NextTags ==
    \/ OpenCustomTagModal
    \/ CloseCustomTagModal
    \/ \E emojiValue \in EmojiValues, nameValue \in NameValues :
          CallSaveCustomTag(emojiValue, nameValue)

SpecTags == InitTags /\ [][NextTags]_vars

\* the stored list
StoredTags == getCustomTags(customTagsItem)

\* at most three tags, no two of one name, none named like a default tag
StoredTagsWellFormed ==
    /\ Len(StoredTags) <= 3
    /\ \A j, k \in 1..Len(StoredTags) :
          StoredTags[j].name = StoredTags[k].name => j = k
    /\ \A k \in 1..Len(StoredTags) : StoredTags[k].name \notin DOMAIN defaultTags

\* the reasons for which a save is rejected: an empty field, the limit
\* reached, a name already taken by a stored or a default tag
RejectedFor(list, emojiValue, nameValue) ==
    \/ EmojiOfValue[emojiValue] = ""
    \/ NameOfValue[nameValue] = ""
    \/ Len(list) >= 3
    \/ \E k \in 1..Len(list) : list[k].name = NameOfValue[nameValue]
    \/ NameOfValue[nameValue] \in DOMAIN defaultTags

\* a step that is a rejected call of saveCustomTag leaves the item alone
RejectedSaveKeepsList ==
    (/\ tagCall'.fn = "saveCustomTag"
     /\ RejectedFor(StoredTags, tagCall'.emoji, tagCall'.name))
    => customTagsItem' = customTagsItem

\* C25: after any sequence of saveCustomTag calls the stored custom-tag list
\* has at most 3 tags, no two with the same name, and none whose name equals
\* a default tag name; a rejected save (empty field, limit reached,
\* duplicate) leaves the stored list unchanged.
C25_CustomTagsWellFormed ==
    []StoredTagsWellFormed /\ [][RejectedSaveKeepsList]_vars

\* three tags are stored and a further save was just refused for the limit
C25_Witness ==
    /\ Len(StoredTags) = 3
    /\ tagCall.fn = "saveCustomTag"
    /\ EmojiOfValue[tagCall.emoji] # "" /\ NameOfValue[tagCall.name] # ""
    /\ tagToast = "Max 3 custom tags"

-----------------------------------------------------------------------------
(* The numbers behind the fractions.  A JavaScript number is an IEEE 754    *)
(* binary64 value: the result of a / b or a * b is the exact result rounded *)
(* to 53 significant bits, ties to the even neighbour.  A fraction [n, d]   *)
(* of this module stands for the number the division n / d returns.  The    *)
(* amounts of the inputs are integers below 2^31, which binary64 holds      *)
(* exactly, as it does their sums.                                          *)

\* the significant bits of a binary64 number
Precision == 53

\* the number 0
DoubleZero == [sign |-> 0]

\* the binary digits of a positive integer, most significant first
RECURSIVE BitsOf(_)
BitsOf(x) == IF x = 0 THEN <<>> ELSE BitsOf(x \div 2) \o <<x % 2>>

\* count zero bits
RECURSIVE ZeroBits(_)
ZeroBits(count) == IF count = 0 THEN <<>> ELSE <<0>> \o ZeroBits(count - 1)

\* a, b and k with b <= a < 2b and the given quotient equal to (a / b) * 2^k
RECURSIVE Scaled(_, _, _)
Scaled(a, b, k) ==
    IF a < b THEN Scaled(2 * a, b, k - 1)
    ELSE IF a >= 2 * b THEN Scaled(a, 2 * b, k + 1)
    ELSE [a |-> a, b |-> b, k |-> k]

\* 52 of the 53 bits are handled as four groups of 13
Group == 8192

\* the 13 binary digits of x < 8192
GroupBits(x) == ZeroBits(13 - Len(BitsOf(x))) \o BitsOf(x)

\* the number that 13 binary digits spell, from the given position on
GroupValue(bits, from) ==
    LET RECURSIVE Spelled(_)
        Spelled(count) ==
            IF count = 0 THEN 0
            ELSE 2 * Spelled(count - 1) + bits[from + count - 1]
    IN  Spelled(13)

\* the next 52 digits of the long division that has remainder r over b,
\* followed by the remainder left after them
LongDivision(r, b) ==
    LET r1 == (r * Group) % b
        r2 == (r1 * Group) % b
        r3 == (r2 * Group) % b
    IN  [bits |-> GroupBits((r * Group) \div b) \o GroupBits((r1 * Group) \div b)
                  \o GroupBits((r2 * Group) \div b) \o GroupBits((r3 * Group) \div b),
         rest |-> (r3 * Group) % b]

\* bits + 1 over the same number of digits, for bits that are not all ones
Successor(bits) ==
    LET last == CHOOSE j \in 1..Len(bits) :
                    bits[j] = 0 /\ \A i \in (j + 1)..Len(bits) : bits[i] = 1
    IN  [i \in 1..Len(bits) |->
            IF i < last THEN bits[i] ELSE IF i = last THEN 1 ELSE 0]

\* the binary64 number of sign, 53 bits and exponent after rounding up or not
Rounded(sign, bits, exp, up) ==
    IF ~up THEN [sign |-> sign, bits |-> bits, exp |-> exp]
    ELSE IF \A i \in 1..Len(bits) : bits[i] = 1
         THEN [sign |-> sign, bits |-> <<1>> \o ZeroBits(Len(bits) - 1), exp |-> exp + 1]
         ELSE [sign |-> sign, bits |-> Successor(bits), exp |-> exp]

\* the number that holds the integer x
DoubleOfInteger(x) ==
    IF x = 0 THEN DoubleZero
    ELSE LET digits == BitsOf(Abs(x))
         IN  [sign |-> IF x < 0 THEN -1 ELSE 1,
              bits |-> digits \o ZeroBits(Precision - Len(digits)),
              exp  |-> Len(digits) - Precision]

\* a / b for integers a and b > 0
DoubleQuotient(a, b) ==
    IF a = 0 THEN DoubleZero
    ELSE LET s == Scaled(Abs(a), b, 0)
             division == LongDivision(s.a - s.b, s.b)
             bits == <<1>> \o division.bits
             up == \/ 2 * division.rest > s.b
                   \/ 2 * division.rest = s.b /\ bits[Precision] = 1
         IN  Rounded(IF a < 0 THEN -1 ELSE 1, bits, s.k - (Precision - 1), up)

\* the number a fraction of this module stands for
Double(q) == DoubleQuotient(q.n, q.d)

\* the digits of bits * k for 53 bits and a positive integer k
ProductBits(bits, k) ==
    LET t4 == GroupValue(bits, 41) * k
        t3 == GroupValue(bits, 28) * k + t4 \div Group
        t2 == GroupValue(bits, 15) * k + t3 \div Group
        t1 == GroupValue(bits, 2) * k + t2 \div Group
        t0 == bits[1] * k + t1 \div Group
    IN  BitsOf(t0) \o GroupBits(t1 % Group) \o GroupBits(t2 % Group)
            \o GroupBits(t3 % Group) \o GroupBits(t4 % Group)

\* as DoubleTimes, the product cut to 53 bits instead of rounded
DoubleTimes_Truncates(x, k) ==
    IF x.sign = 0 \/ k = 0 THEN DoubleZero
    ELSE LET product == ProductBits(x.bits, Abs(k))
         IN  Rounded(IF k < 0 THEN -x.sign ELSE x.sign,
                     SubSeq(product, 1, Precision),
                     x.exp + Len(product) - Precision, FALSE)

\* x * k for a number x and an integer k
DoubleTimes(x, k) ==
    IF x.sign = 0 \/ k = 0 THEN DoubleZero
    ELSE LET product == ProductBits(x.bits, Abs(k))
             kept == SubSeq(product, 1, Precision)
             rest == SubSeq(product, Precision + 1, Len(product))
             up == /\ Len(rest) > 0
                   /\ rest[1] = 1
                   /\ \/ \E i \in 2..Len(rest) : rest[i] = 1
                      \/ kept[Precision] = 1
         IN  Rounded(IF k < 0 THEN -x.sign ELSE x.sign, kept,
                     x.exp + Len(product) - Precision, up)

-----------------------------------------------------------------------------
(* calculateWinLossStats on longer inputs of plain amounts, where the       *)
(* averages are quotients that binary64 cannot hold exactly                 *)

\* the longest input
MaxAmounts == 7

\* closed positions that differ in realizedPnl only, one without it
AmountPool ==
    { [realizedPnl |-> 4], [realizedPnl |-> 5], [realizedPnl |-> -4],
      [avgPrice |-> 50] }

AmountInputs == {Array(s) : s \in SeqsUpTo(AmountPool, MaxAmounts)}

InitAmounts ==
    /\ closedPositions \in AmountInputs
    /\ winLossStats = EmptyObject
    /\ trades = <<>>
    /\ monthlyVolume = <<>>
    /\ appData = EmptyObject
    /\ stats = EmptyObject
    /\ calls = <<>>
    /\ WalletInitial
    /\ ActivityInitial
    /\ DataInitial
    /\ ChatInitial
    /\ TagsInitial
    /\ pc = "call"

NextAmounts == CallCalculateWinLossStats

SpecAmounts == InitAmounts /\ [][NextAmounts]_vars

\* the call returned the result of a non-empty input
ReturnedForSome == Returned /\ Len(GivenPositions) > 0

\* totalRealizedPnL == totalWinAmount - totalLossAmount, neither negative
AmountsAddUp ==
    /\ winLossStats.totalRealizedPnL
           = winLossStats.totalWinAmount - winLossStats.totalLossAmount
    /\ winLossStats.totalLossAmount >= 0
    /\ winLossStats.totalWinAmount >= 0

\* average * count == total, as the two JavaScript numbers compare
MultipliesBack(average, count, total) ==
    DoubleTimes(Double(winLossStats[average]), winLossStats[count])
        = DoubleOfInteger(winLossStats[total])

\* average is total / count, and 0 when count is 0
IsQuotient(average, count, total) ==
    IF winLossStats[count] > 0
    THEN /\ winLossStats[average] = Quot(winLossStats[total], winLossStats[count])
         /\ Double(winLossStats[average])
                = DoubleQuotient(winLossStats[total], winLossStats[count])
    ELSE winLossStats[average] = Zero

-----------------------------------------------------------------------------
(* The buckets against the overall figures, checked under SpecWinLoss *)

\* the names a position can be classified under
BucketNames == {CategoryKeywords[k][1] : k \in DOMAIN CategoryKeywords} \cup {"Other"}

\* the given positions that are classified into a category
ClassifiedInto(category) ==
    {i \in DOMAIN GivenPositions : PositionCategory(GivenPositions[i]) = category}

\* counts, wins, losses and totalPnl of a set of buckets add up to the
\* overall figures
SumsToOverall(buckets) ==
    /\ SumField(buckets, "count") = winLossStats.totalResolved
    /\ SumField(buckets, "wins") = winLossStats.wins
    /\ SumField(buckets, "losses") = winLossStats.losses
    /\ SumField(buckets, "totalPnl") = winLossStats.totalRealizedPnL

-----------------------------------------------------------------------------
(* The distributions against the totals, checked under SpecStats *)

\* every trade of the input has a timestamp
ValidTimestamps ==
    \A i \in DOMAIN GivenTrades : "timestamp" \in DOMAIN GivenTrades[i]

\* a field of the months added up
RECURSIVE SumMonths(_, _)
SumMonths(entries, field) ==
    IF entries = <<>> THEN 0
    ELSE Head(entries).value[field] + SumMonths(Tail(entries), field)

====
